---- MODULE Spec2Model ----
(***************************************************************************)
(* The graph runtime of the optimal calculus (src/unnamed/part_001): the   *)
(* flat heap of tagged pointers, link / alloc / free, the local collector, *)
(* subst, the rewrite rules of reduce and the normal driver.               *)
(*                                                                         *)
(* reduce and normal are recursive procedures; they are modelled by an     *)
(* explicit call stack whose frames hold the locals of one activation.     *)
(* One rewrite rule (with the subst, collect, link, alloc and free calls   *)
(* it makes) is one atomic action.                                         *)
(***************************************************************************)
EXTENDS Integers, Sequences, FiniteSets, TLC

----------------------------------------------------------------------------
(* Tags (part_001:105-114) *)

NIL == 0
LAM == 1
APP == 2
PAR == 3
DP0 == 4
DP1 == 5
VAR == 6
LNK == 7
CTR == 8
CAL == 9

(* Pointer encoding (part_001:144-174) *)

MUL_A == 16
MUL_B == 4096
MUL_C == 1048576

ptr(tag, pos, ex0, ex1) == tag + (ex0 * MUL_A) + (ex1 * MUL_B) + (pos * MUL_C)

get_tag(p) == p % 16

get_ex0(p) == (p \div MUL_A) % 256

(* the second extension byte read without its mask *)
get_ex1_unmasked(p) == p \div MUL_B

get_ex1(p) == (p \div MUL_B) % 256

get_pos(p) == p \div MUL_C

get_loc(p, arg) == (p \div MUL_C) + arg

(* LIM = Infinity (part_001:142) is represented by -1; GAS >= LIM is     *)
(* false for every GAS when LIM is Infinity.                               *)
Infinity == -1

----------------------------------------------------------------------------
(* The heap.  A heap value h is the record of the module-level arrays      *)
(* MEM, RE0..RE3 of the source; the operators below thread it through the  *)
(* statements of one procedure.  MEM is a function on 0..length-1.         *)
(* dead is a history field: the cells passed to free and not handed out    *)
(* again by alloc since.                                                   *)
(* Intermediate heaps are passed as operator arguments throughout.         *)

MemLen(m) == Cardinality(DOMAIN m)

get_arg(h, term, idx) == h.MEM[get_loc(term, idx)]

(* the patch with the slot of Dp0 used for Dp1 as well *)
link_patch_dp1_as_dp0(m, pos, term) ==
  CASE get_tag(term) = VAR -> [m EXCEPT ![get_loc(term, 0)] = ptr(LNK, pos, 0, 0)]
    [] get_tag(term) = DP0 -> [m EXCEPT ![get_loc(term, 0)] = ptr(LNK, pos, 0, 0)]
    [] get_tag(term) = DP1 -> [m EXCEPT ![get_loc(term, 0)] = ptr(LNK, pos, 0, 0)]
    [] OTHER -> m

(* the back-edge patch of link: the binder slot a pointer names, if any *)
link_patch(m, pos, term) ==
  CASE get_tag(term) = VAR -> [m EXCEPT ![get_loc(term, 0)] = ptr(LNK, pos, 0, 0)]
    [] get_tag(term) = DP0 -> [m EXCEPT ![get_loc(term, 0)] = ptr(LNK, pos, 0, 0)]
    [] get_tag(term) = DP1 -> [m EXCEPT ![get_loc(term, 1)] = ptr(LNK, pos, 0, 0)]
    [] OTHER -> m

(* link without the back-edge patch *)
link_unpatched(h, pos, term) == [h EXCEPT !.MEM = [h.MEM EXCEPT ![pos] = term]]

link(h, pos, term) ==
  [h EXCEPT !.MEM = link_patch([h.MEM EXCEPT ![pos] = term], pos, term)]

Last(s) == s[Len(s)]

Front(s) == SubSeq(s, 1, Len(s) - 1)

(* The free list alloc and free select for a block size (the switch at    *)
(* part_001:187-192 and 214-219); sizes above 3 have none.                 *)
Bucket(h, size) ==
  CASE size = 0 -> h.RE0
    [] size = 1 -> h.RE1
    [] size = 2 -> h.RE2
    [] size = 3 -> h.RE3
    [] OTHER -> << >>

SetBucket(h, size, s) ==
  CASE size = 0 -> [h EXCEPT !.RE0 = s]
    [] size = 1 -> [h EXCEPT !.RE1 = s]
    [] size = 2 -> [h EXCEPT !.RE2 = s]
    [] size = 3 -> [h EXCEPT !.RE3 = s]
    [] OTHER -> h

(* MEM.push(0), size times, on an array of length n *)
push_zeros(m, n, size) == [k \in 0 .. (n + size - 1) |-> IF k < n THEN m[k] ELSE 0]

(* alloc returns the pair of the new heap and the position handed out.    *)
alloc(h, size) ==
  IF Bucket(h, size) # << >>
  THEN [h |-> [SetBucket(h, size, Front(Bucket(h, size)))
                 EXCEPT !.dead = @ \ (Last(Bucket(h, size)) .. (Last(Bucket(h, size)) + size - 1))],
        pos |-> Last(Bucket(h, size))]
  ELSE IF size > 0
       THEN [h |-> [h EXCEPT !.MEM = push_zeros(h.MEM, MemLen(h.MEM), size)],
             pos |-> MemLen(h.MEM)]
       ELSE [h |-> h, pos |-> 0]

(* free without the loop that clears the cells *)
zero_cells_kept(h, pos, size) == [h EXCEPT !.dead = @ \cup (pos .. (pos + size - 1))]

(* the loop of free run over one cell more than the block *)
zero_cells_wide(h, pos, size) ==
  [h EXCEPT !.MEM = [k \in DOMAIN h.MEM |-> IF k >= pos /\ k <= pos + size THEN 0 ELSE h.MEM[k]],
            !.dead = @ \cup (pos .. (pos + size - 1))]

(* the loop of free: MEM[k] = 0 for the cells of the block *)
zero_cells(h, pos, size) ==
  [h EXCEPT !.MEM = [k \in DOMAIN h.MEM |-> IF k >= pos /\ k < pos + size THEN 0 ELSE h.MEM[k]],
            !.dead = @ \cup (pos .. (pos + size - 1))]

(* the switch of free: push pos on the list of its size *)
push_free(h, pos, size) ==
  IF size \in 0 .. 3 THEN SetBucket(h, size, Append(Bucket(h, size), pos)) ELSE h

free(h, pos, size) == push_free(zero_cells(h, pos, size), pos, size)

----------------------------------------------------------------------------
(* Local collector (part_001:688-737).  host = null is written 0: the     *)
(* source tests `if (host)`, which treats null and 0 alike.                *)

null == 0

RECURSIVE collect(_, _, _)
RECURSIVE collect_args(_, _, _)

(* collect(get_arg(term,i), get_loc(term,i)) *)
collect_arg(h, term, i) ==
  CHOOSE r \in {collect(a[1], a[2], a[3]) :
                  a \in {<<x, get_arg(x, term, i), get_loc(term, i)>> : x \in {h}}} : TRUE

(* the loop of the CTR / CAL case, from index i on *)
collect_args(h, term, i) ==
  IF i < get_ex0(term)
  THEN collect_args(collect_arg(h, term, i), term, i + 1)
  ELSE h

(* the LAM case up to the recursive call: the occurrence of a used binder  *)
(* is set to NIL                                                           *)
collect_unbind(h, term) ==
  IF get_tag(get_arg(h, term, 0)) # NIL
  THEN link(h, get_loc(get_arg(h, term, 0), 0), ptr(NIL, 0, 0, 0))
  ELSE h

(* if (host) free(host, 1) *)
collect_free_host(h, host) == IF host # 0 THEN free(h, host, 1) ELSE h

(* the PAR case without the write to the host slot *)
collect_host_kept(h, host) == h

(* if (host) link(host, ptr(NIL,0)) *)
collect_nil_host(h, host) == IF host # 0 THEN link(h, host, ptr(NIL, 0, 0, 0)) ELSE h

collect(h, term, host) ==
  CASE get_tag(term) = LAM ->
         free(collect_arg(collect_unbind(h, term), term, 1), get_loc(term, 0), 2)
    [] get_tag(term) = APP ->
         free(collect_arg(collect_arg(h, term, 0), term, 1), get_loc(term, 0), 2)
    [] get_tag(term) = PAR ->
         collect_nil_host(
           free(collect_arg(collect_arg(h, term, 0), term, 1), get_loc(term, 0), 2), host)
    [] get_tag(term) = DP0 ->
         collect_free_host(link(h, get_loc(term, 0), ptr(NIL, 0, 0, 0)), host)
    [] get_tag(term) = DP1 ->
         collect_free_host(link(h, get_loc(term, 1), ptr(NIL, 0, 0, 0)), host)
    [] get_tag(term) \in {CTR, CAL} ->
         free(collect_args(h, term, 0), get_loc(term, 0), get_ex0(term))
    [] get_tag(term) = VAR ->
         collect_free_host(link(h, get_loc(term, 0), ptr(NIL, 0, 0, 0)), host)
    [] OTHER -> h

(* subst that leaves an unused value alone *)
subst_keep(h, lnk, val) ==
  IF get_tag(lnk) # NIL
  THEN link(h, get_loc(lnk, 0), val)
  ELSE h

(* subst (part_001:742-749) *)
subst(h, lnk, val) ==
  IF get_tag(lnk) # NIL
  THEN link(h, get_loc(lnk, 0), val)
  ELSE collect(h, val, null)

----------------------------------------------------------------------------
(* The body of a rewrite rule is a straight-line list of link, subst and   *)
(* free statements.  An operand is a pointer value (Imm) or get_arg(t, i), *)
(* which is read from the heap when its statement runs (ArgOf).            *)

Imm(p) == [arg |-> FALSE, term |-> p, idx |-> 0]

ArgOf(term, idx) == [arg |-> TRUE, term |-> term, idx |-> idx]

Operand(h, o) == IF o.arg THEN get_arg(h, o.term, o.idx) ELSE o.term

Link(pos, val) == [op |-> "link", pos |-> pos, size |-> 0, a |-> val, b |-> val]

Subst(lnk, val) == [op |-> "subst", pos |-> 0, size |-> 0, a |-> lnk, b |-> val]

Free(pos, size) == [op |-> "free", pos |-> pos, size |-> size, a |-> Imm(0), b |-> Imm(0)]

Statement(h, st) ==
  CASE st.op = "link" -> link(h, st.pos, Operand(h, st.a))
    [] st.op = "subst" ->
         CHOOSE r \in {subst(h, a[1], a[2]) : a \in {<<Operand(h, st.a), Operand(h, st.b)>>}} : TRUE
    [] st.op = "free" -> free(h, st.pos, st.size)

(* the statements from index i on, in order (the heap a statement leaves   *)
(* is bound by a quantifier, which computes it once)                       *)
RECURSIVE Run(_, _, _)
Run(h, sts, i) ==
  IF i <= Len(sts)
  THEN CHOOSE r \in {Run(x, sts, i + 1) : x \in {Statement(h, st) : st \in {sts[i]}}} : TRUE
  ELSE h

(* successive alloc calls of the given sizes: the heap after them and the  *)
(* positions handed out, in order                                          *)
RECURSIVE Allocs(_, _, _)
alloc_next(a, pos) == [h |-> a.h, pos |-> Append(pos, a.pos)]
Allocs(a, sizes, i) ==
  IF i <= Len(sizes)
  THEN CHOOSE r \in {Allocs(x, sizes, i + 1) : x \in {alloc_next(alloc(a.h, sizes[i]), a.pos)}} : TRUE
  ELSE a

----------------------------------------------------------------------------
(* The rewrite rules of reduce (part_001:752-918) as heap transformers.   *)
(* host is the slot being reduced, term = MEM[host] as fetched at the top  *)
(* of the loop, func / expr the pointer the inner reduce call returned.    *)

(* APP-LAM with the binder slot of the abstraction linked at host *)
rule_app_lam_binder(h, host, term, func) ==
  Run(h, << Subst(ArgOf(func, 0), ArgOf(term, 1)),
            Link(host, ArgOf(func, 0)),
            Free(get_loc(term, 0), 2),
            Free(get_loc(func, 0), 2) >>, 1)

(* APP-LAM without the free of the abstraction *)
rule_app_lam_keep(h, host, term, func) ==
  Run(h, << Subst(ArgOf(func, 0), ArgOf(term, 1)),
            Link(host, ArgOf(func, 1)),
            Free(get_loc(term, 0), 2) >>, 1)

(* (\x:b a) -- APP-LAM, part_001:763-773 *)
rule_app_lam(h, host, term, func) ==
  Run(h, << Subst(ArgOf(func, 0), ArgOf(term, 1)),
            Link(host, ArgOf(func, 1)),
            Free(get_loc(term, 0), 2),
            Free(get_loc(func, 0), 2) >>, 1)

(* APP-PAR with a second projection that has lost the color *)
app_par_body_plain(h, let0, app0, app1, par0, host, term, func) ==
  Run(h, << Link(let0 + 2, ArgOf(term, 1)),
            Link(app0 + 0, ArgOf(func, 0)),
            Link(app0 + 1, Imm(ptr(DP0, let0, get_ex0(func), 0))),
            Link(app1 + 0, ArgOf(func, 1)),
            Link(app1 + 1, Imm(ptr(DP1, let0, 0, 0))),
            Link(par0 + 0, Imm(ptr(APP, app0, 0, 0))),
            Link(par0 + 1, Imm(ptr(APP, app1, 0, 0))),
            Link(host, Imm(ptr(PAR, par0, get_ex0(func), 0))),
            Free(get_loc(term, 0), 2),
            Free(get_loc(func, 0), 2) >>, 1)

(* (&A<a b> c) -- APP-PAR, part_001:778-799 *)
app_par_body(h, let0, app0, app1, par0, host, term, func) ==
  Run(h, << Link(let0 + 2, ArgOf(term, 1)),
            Link(app0 + 0, ArgOf(func, 0)),
            Link(app0 + 1, Imm(ptr(DP0, let0, get_ex0(func), 0))),
            Link(app1 + 0, ArgOf(func, 1)),
            Link(app1 + 1, Imm(ptr(DP1, let0, get_ex0(func), 0))),
            Link(par0 + 0, Imm(ptr(APP, app0, 0, 0))),
            Link(par0 + 1, Imm(ptr(APP, app1, 0, 0))),
            Link(host, Imm(ptr(PAR, par0, get_ex0(func), 0))),
            Free(get_loc(term, 0), 2),
            Free(get_loc(func, 0), 2) >>, 1)

app_par_alloc(a, host, term, func) ==
  app_par_body(a.h, a.pos[1], a.pos[2], a.pos[3], a.pos[4], host, term, func)

rule_app_par(h, host, term, func) ==
  CHOOSE r \in {app_par_alloc(a, host, term, func) :
                  a \in {Allocs([h |-> h, pos |-> << >>], <<3, 2, 2, 2>>, 1)}} : TRUE

(* LET-LAM without the substitution of the bound variable *)
let_lam_body_unbound(h, lam0, lam1, par0, let0, host, term, expr) ==
  Run(h, << Link(lam0 + 1, Imm(ptr(DP0, let0, get_ex0(term), 0))),
            Link(lam1 + 1, Imm(ptr(DP1, let0, get_ex0(term), 0))),
            Link(par0 + 0, Imm(ptr(VAR, lam0, 0, 0))),
            Link(par0 + 1, Imm(ptr(VAR, lam1, 0, 0))),
            Link(let0 + 2, ArgOf(expr, 1)),
            Subst(ArgOf(term, 0), Imm(ptr(LAM, lam0, 0, 0))),
            Subst(ArgOf(term, 1), Imm(ptr(LAM, lam1, 0, 0))),
            Link(host, Imm(ptr(LAM, IF get_tag(term) = DP0 THEN lam0 ELSE lam1, 0, 0))),
            Free(get_loc(term, 0), 3),
            Free(get_loc(expr, 0), 2) >>, 1)

(* LET-LAM with the two variables of the pair for x exchanged *)
let_lam_body_swap(h, lam0, lam1, par0, let0, host, term, expr) ==
  Run(h, << Link(lam0 + 1, Imm(ptr(DP0, let0, get_ex0(term), 0))),
            Link(lam1 + 1, Imm(ptr(DP1, let0, get_ex0(term), 0))),
            Link(par0 + 0, Imm(ptr(VAR, lam1, 0, 0))),
            Link(par0 + 1, Imm(ptr(VAR, lam0, 0, 0))),
            Link(let0 + 2, ArgOf(expr, 1)),
            Subst(ArgOf(term, 0), Imm(ptr(LAM, lam0, 0, 0))),
            Subst(ArgOf(term, 1), Imm(ptr(LAM, lam1, 0, 0))),
            Subst(ArgOf(expr, 0), Imm(ptr(PAR, par0, get_ex0(term), 0))),
            Link(host, Imm(ptr(LAM, IF get_tag(term) = DP0 THEN lam0 ELSE lam1, 0, 0))),
            Free(get_loc(term, 0), 3),
            Free(get_loc(expr, 0), 2) >>, 1)

(* !A<r s> = \x: f -- LET-LAM, part_001:813-835 *)
let_lam_body(h, lam0, lam1, par0, let0, host, term, expr) ==
  Run(h, << Link(lam0 + 1, Imm(ptr(DP0, let0, get_ex0(term), 0))),
            Link(lam1 + 1, Imm(ptr(DP1, let0, get_ex0(term), 0))),
            Link(par0 + 0, Imm(ptr(VAR, lam0, 0, 0))),
            Link(par0 + 1, Imm(ptr(VAR, lam1, 0, 0))),
            Link(let0 + 2, ArgOf(expr, 1)),
            Subst(ArgOf(term, 0), Imm(ptr(LAM, lam0, 0, 0))),
            Subst(ArgOf(term, 1), Imm(ptr(LAM, lam1, 0, 0))),
            Subst(ArgOf(expr, 0), Imm(ptr(PAR, par0, get_ex0(term), 0))),
            Link(host, Imm(ptr(LAM, IF get_tag(term) = DP0 THEN lam0 ELSE lam1, 0, 0))),
            Free(get_loc(term, 0), 3),
            Free(get_loc(expr, 0), 2) >>, 1)

let_lam_alloc(a, host, term, expr) ==
  let_lam_body(a.h, a.pos[1], a.pos[2], a.pos[3], a.pos[4], host, term, expr)

rule_let_lam(h, host, term, expr) ==
  CHOOSE r \in {let_lam_alloc(a, host, term, expr) :
                  a \in {Allocs([h |-> h, pos |-> << >>], <<2, 2, 2, 3>>, 1)}} : TRUE

(* LET-PAR with equal colors and the two components exchanged *)
rule_let_par_eq_swap(h, host, term, expr) ==
  Run(h, << Subst(ArgOf(term, 0), ArgOf(expr, 1)),
            Subst(ArgOf(term, 1), ArgOf(expr, 0)),
            Link(host, ArgOf(expr, IF get_tag(term) = DP0 THEN 1 ELSE 0)),
            Free(get_loc(term, 0), 3),
            Free(get_loc(expr, 0), 2) >>, 1)

(* !A<x y> = &A<a b> -- LET-PAR with equal colors, part_001:851-860 *)
rule_let_par_eq(h, host, term, expr) ==
  Run(h, << Subst(ArgOf(term, 0), ArgOf(expr, 0)),
            Subst(ArgOf(term, 1), ArgOf(expr, 1)),
            Link(host, ArgOf(expr, IF get_tag(term) = DP0 THEN 0 ELSE 1)),
            Free(get_loc(term, 0), 3),
            Free(get_loc(expr, 0), 2) >>, 1)

(* LET-PAR with different colors and new pairs of the color of the duplicator *)
let_par_ne_body_dup(h, par0, par1, let0, let1, host, term, expr) ==
  Run(h, << Link(par0 + 0, Imm(ptr(DP0, let0, get_ex0(term), 0))),
            Link(par0 + 1, Imm(ptr(DP0, let1, get_ex0(term), 0))),
            Link(par1 + 0, Imm(ptr(DP1, let0, get_ex0(term), 0))),
            Link(par1 + 1, Imm(ptr(DP1, let1, get_ex0(term), 0))),
            Link(let0 + 2, ArgOf(expr, 0)),
            Link(let1 + 2, ArgOf(expr, 1)),
            Subst(ArgOf(term, 0), Imm(ptr(PAR, par0, get_ex0(term), 0))),
            Subst(ArgOf(term, 1), Imm(ptr(PAR, par1, get_ex0(term), 0))),
            Link(host, Imm(ptr(PAR, IF get_tag(term) = DP0 THEN par0 ELSE par1, get_ex0(term), 0))),
            Free(get_loc(term, 0), 3),
            Free(get_loc(expr, 0), 2) >>, 1)

(* !A<x y> = &B<a b> -- LET-PAR with different colors, part_001:861-881 *)
let_par_ne_body(h, par0, par1, let0, let1, host, term, expr) ==
  Run(h, << Link(par0 + 0, Imm(ptr(DP0, let0, get_ex0(term), 0))),
            Link(par0 + 1, Imm(ptr(DP0, let1, get_ex0(term), 0))),
            Link(par1 + 0, Imm(ptr(DP1, let0, get_ex0(term), 0))),
            Link(par1 + 1, Imm(ptr(DP1, let1, get_ex0(term), 0))),
            Link(let0 + 2, ArgOf(expr, 0)),
            Link(let1 + 2, ArgOf(expr, 1)),
            Subst(ArgOf(term, 0), Imm(ptr(PAR, par0, get_ex0(expr), 0))),
            Subst(ArgOf(term, 1), Imm(ptr(PAR, par1, get_ex0(expr), 0))),
            Link(host, Imm(ptr(PAR, IF get_tag(term) = DP0 THEN par0 ELSE par1, get_ex0(expr), 0))),
            Free(get_loc(term, 0), 3),
            Free(get_loc(expr, 0), 2) >>, 1)

let_par_ne_alloc(a, host, term, expr) ==
  let_par_ne_body(a.h, a.pos[1], a.pos[2], a.pos[3], a.pos[4], host, term, expr)

rule_let_par_ne(h, host, term, expr) ==
  CHOOSE r \in {let_par_ne_alloc(a, host, term, expr) :
                  a \in {Allocs([h |-> h, pos |-> << >>], <<2, 2, 3, 3>>, 1)}} : TRUE

(* one iteration of the loop of LET-CTR (part_001:899-904); a is the       *)
(* result of its alloc(3)                                                  *)
let_ctr_iter(a, expr, ctr0, ctr1, i) ==
  Run(a.h, << Link(ctr0 + i, Imm(ptr(DP0, a.pos, 0, 0))),
              Link(ctr1 + i, Imm(ptr(DP1, a.pos, 0, 0))),
              Link(a.pos + 2, ArgOf(expr, i)) >>, 1)

RECURSIVE let_ctr_loop(_, _, _, _, _)
let_ctr_loop(h, expr, ctr0, ctr1, i) ==
  IF i < get_ex0(expr)
  THEN CHOOSE r \in {let_ctr_loop(x, expr, ctr0, ctr1, i + 1) :
                       x \in {let_ctr_iter(alloc(h, 3), expr, ctr0, ctr1, i)}} : TRUE
  ELSE h

(* the statements of LET-CTR after the loop *)
let_ctr_body(h, ctr0, ctr1, arit, func, host, term, expr) ==
  Run(h, << Subst(ArgOf(term, 0), Imm(ptr(CTR, ctr0, arit, func))),
            Subst(ArgOf(term, 1), Imm(ptr(CTR, ctr1, arit, func))),
            Link(host, Imm(ptr(CTR, IF get_tag(term) = DP0 THEN ctr0 ELSE ctr1, arit, func))),
            Free(get_loc(term, 0), 3),
            Free(get_loc(expr, 0), arit) >>, 1)

let_ctr_alloc(a, host, term, expr) ==
  CHOOSE r \in {let_ctr_body(x, a.pos[1], a.pos[2], get_ex0(expr), get_ex1(expr), host, term, expr) :
                  x \in {let_ctr_loop(a.h, expr, a.pos[1], a.pos[2], 0)}} : TRUE

(* !A<x y> = $V:L{a b c ...} -- LET-CTR, part_001:892-912 *)
rule_let_ctr(h, host, term, expr) ==
  CHOOSE r \in {let_ctr_alloc(a, host, term, expr) :
                  a \in {Allocs([h |-> h, pos |-> << >>], <<get_ex0(expr), get_ex0(expr)>>, 1)}} : TRUE

----------------------------------------------------------------------------
(* The reader (part_001:471-640), from the syntax tree on: the lexical     *)
(* layer (skip, parse_name, consume, parse_numb) is left out, and a term   *)
(* is given as the tree the recursive descent of parse_term walks:         *)
(*   <<"lam", name, body>>          <<"app", func, argm>>                  *)
(*   <<"par", col, val0, val1>>     <<"let", col, nam0, nam1, expr, body>> *)
(*   <<"ctr", id, args>>            <<"cal", id, args>>                    *)
(*   <<"var", name>>                                                       *)
(* A parse state holds the heap, the name maps of read, the list vars and  *)
(* out, the pointer the last parse_term call returned.                     *)

EmptyMap == [x \in {} |-> 0]

RECURSIVE parse_term(_, _, _)
RECURSIVE parse_args(_, _, _, _, _)

(* the parse state with the heap after an alloc *)
after_alloc(ps, a) == [ps EXCEPT !.h = a.h]

(* case "lam": p1 is the state after the body was parsed *)
parse_lam_end(p1, name, node) ==
  [p1 EXCEPT !.h = link(link(p1.h, node + 0, ptr(NIL, 0, 0, 0)), node + 1, p1.out),
             !.lams = (name :> node) @@ p1.lams,
             !.out = ptr(LAM, node, 0, 0)]

parse_lam(ps, a, t) ==
  parse_lam_end(parse_term(after_alloc(ps, a), t[3], a.pos + 1), t[2], a.pos)

(* cases "(" and "&": p1 is the state after the first subterm, p2 after    *)
(* the second                                                              *)
parse_pair_end(p1, p2, node, out) ==
  [p2 EXCEPT !.h = link(link(p2.h, node + 0, p1.out), node + 1, p2.out), !.out = out]

parse_pair_snd(p1, t2, node, out) ==
  parse_pair_end(p1, parse_term(p1, t2, node + 1), node, out)

parse_pair(ps, a, t1, t2, tag, col) ==
  parse_pair_snd(parse_term(after_alloc(ps, a), t1, a.pos + 0), t2, a.pos,
                 ptr(tag, a.pos, col, 0))

(* case "!": p1 is the state after expr, p2 after body *)
parse_let_end(p1, p2, node, t) ==
  [p2 EXCEPT !.h = link(link(link(p2.h, node + 0, ptr(NIL, 0, 0, 0)),
                             node + 1, ptr(NIL, 0, 0, 0)),
                        node + 2, p1.out),
             !.let0s = (t[3] :> node) @@ p2.let0s,
             !.tag0s = (t[3] :> t[2]) @@ p2.tag0s,
             !.let1s = (t[4] :> node) @@ p2.let1s,
             !.tag1s = (t[4] :> t[2]) @@ p2.tag1s]

parse_let_body(p1, node, t, local) ==
  parse_let_end(p1, parse_term(p1, t[6], local), node, t)

parse_let(ps, a, t, local) ==
  parse_let_body(parse_term(after_alloc(ps, a), t[5], a.pos + 2), a.pos, t, local)

(* cases "$" and "@": the first loop, args.push(parse_term(node + i)) *)
parse_args_next(p1, args, node, i, outs) ==
  parse_args(p1, args, node, i + 1, Append(outs, p1.out))

parse_args(ps, args, node, i, outs) ==
  IF i < Len(args)
  THEN parse_args_next(parse_term(ps, args[i + 1], node + i), args, node, i, outs)
  ELSE [ps EXCEPT !.out = outs]

(* the second loop: link(node + i, args[i]) *)
RECURSIVE link_args(_, _, _, _)
link_args(h, node, outs, i) ==
  IF i < Len(outs)
  THEN link_args(link(h, node + i, outs[i + 1]), node, outs, i + 1)
  ELSE h

parse_ctr_end(p1, node, out) ==
  [p1 EXCEPT !.h = link_args(p1.h, node, p1.out, 0), !.out = out]

parse_ctr(ps, a, t) ==
  parse_ctr_end(parse_args(after_alloc(ps, a), t[3], a.pos, 0, << >>), a.pos,
                ptr(IF t[1] = "ctr" THEN CTR ELSE CAL, a.pos, Len(t[3]), t[2]))

parse_term(ps, t, local) ==
  CASE t[1] = "lam" -> parse_lam(ps, alloc(ps.h, 2), t)
    [] t[1] = "app" -> parse_pair(ps, alloc(ps.h, 2), t[2], t[3], APP, 0)
    [] t[1] = "par" -> parse_pair(ps, alloc(ps.h, 2), t[3], t[4], PAR, t[2])
    [] t[1] = "let" -> parse_let(ps, alloc(ps.h, 3), t, local)
    [] t[1] \in {"ctr", "cal"} -> parse_ctr(ps, alloc(ps.h, Len(t[3])), t)
    [] OTHER ->
         [ps EXCEPT !.vars = Append(@, <<t[2], local>>), !.out = ptr(NIL, 0, 0, 0)]

(* one iteration of build (part_001:480-495) for the entry (name, pos) *)
build_lam(ps, h, var_name, var_pos) ==
  IF var_name \in DOMAIN ps.lams
  THEN link(h, var_pos, ptr(VAR, ps.lams[var_name], 0, 0)) ELSE h

build_let0(ps, h, var_name, var_pos) ==
  IF var_name \in DOMAIN ps.let0s
  THEN link(h, var_pos, ptr(DP0, ps.let0s[var_name], ps.tag0s[var_name], 0)) ELSE h

build_let1(ps, h, var_name, var_pos) ==
  IF var_name \in DOMAIN ps.let1s
  THEN link(h, var_pos, ptr(DP1, ps.let1s[var_name], ps.tag1s[var_name], 0)) ELSE h

build_var(ps, h, v) ==
  build_let1(ps, build_let0(ps, build_lam(ps, h, v[1], v[2]), v[1], v[2]), v[1], v[2])

(* build, from entry i of vars on *)
RECURSIVE build(_, _, _)
build(ps, h, i) ==
  IF i <= Len(ps.vars) THEN build(ps, build_var(ps, h, ps.vars[i]), i + 1) ELSE h

(* the heap of a freshly loaded program (part_001:136-140) after           *)
(* MEM = [ptr(NIL,0)]                                                      *)
EmptyHeap ==
  [MEM |-> (0 :> ptr(NIL, 0, 0, 0)), RE0 |-> << >>, RE1 |-> << >>,
   RE2 |-> << >>, RE3 |-> << >>, dead |-> {}]

(* link(0, parse_term(0)); build() *)
read_end(p1) == build(p1, link(p1.h, 0, p1.out), 1)

read(t) ==
  read_end(parse_term([h |-> EmptyHeap, lams |-> EmptyMap, let0s |-> EmptyMap,
                       let1s |-> EmptyMap, tag0s |-> EmptyMap, tag1s |-> EmptyMap,
                       vars |-> << >>, out |-> 0], t, 0))

----------------------------------------------------------------------------
(* Input terms.                                                            *)

Lam(name, body) == <<"lam", name, body>>
App(func, argm) == <<"app", func, argm>>
Par(col, val0, val1) == <<"par", col, val0, val1>>
Let(col, nam0, nam1, expr, body) == <<"let", col, nam0, nam1, expr, body>>
Ctr(id, args) == <<"ctr", id, args>>
Cal(id, args) == <<"cal", id, args>>
Var(name) == <<"var", name>>

(* (\x: x \a: \b: a) *)
TermS1 == App(Lam("x", Var("x")), Lam("a", Lam("b", Var("a"))))

(* !0<a b> = \x: x; (a b) *)
TermS3 == Let(0, "a", "b", Lam("x", Var("x")), App(Var("a"), Var("b")))

(* (&0<\x: x \y: y> \k: k) *)
TermS4 == App(Par(0, Lam("x", Var("x")), Lam("y", Var("y"))), Lam("k", Var("k")))

(* !0<a b> = \x: x; (&1<a b> \k: k): an APP-PAR redex at the root and a    *)
(* LET-LAM redex at both components of the pair                            *)
TermConfl == Let(0, "a", "b", Lam("x", Var("x")),
                 App(Par(1, Var("a"), Var("b")), Lam("k", Var("k"))))

(* !0<r s> = \x: (&0<\a: x \b: b> \k: k); $0:2{r s} *)
TermSeen == Let(0, "r", "s",
                Lam("x", App(Par(0, Lam("a", Var("x")), Lam("b", Var("b"))),
                             Lam("k", Var("k")))),
                Ctr(0, <<Var("r"), Var("s")>>))

(* \y: \z: !0<r s> = &0<(y \k: k) z>; !1<f g> = \x: x;                     *)
(*         !2<h i> = $5:1{\c: c}; (((s f) h) g)                            *)
TermFree == Lam("y", Lam("z",
              Let(0, "r", "s", Par(0, App(Var("y"), Lam("k", Var("k"))), Var("z")),
              Let(1, "f", "g", Lam("x", Var("x")),
              Let(2, "h", "i", Ctr(5, <<Lam("c", Var("c"))>>),
                  App(App(App(Var("s"), Var("f")), Var("h")), Var("g")))))))

(* !0<a b> = &1<\x: x \y: y>; (a b): LET-PAR with different colors *)
TermComm == Let(0, "a", "b", Par(1, Lam("x", Var("x")), Lam("y", Var("y"))),
                App(Var("a"), Var("b")))

(* !0<a b> = $1:2{\x: x @2:1{\y: y}}; &3<a b>: LET-CTR, and a projection   *)
(* stuck on a call                                                         *)
TermCtr == Let(0, "a", "b", Ctr(1, <<Lam("x", Var("x")), Cal(2, <<Lam("y", Var("y"))>>)>>),
               Par(3, Var("a"), Var("b")))

(* ((t $1:0{}) (\t: $0:0{} \a: \b: a)): the scope violation of the header  *)
(* comment (part_001:24-26), with constructors for the numerals            *)
TermScope == App(App(Var("t"), Ctr(1, << >>)),
                 App(Lam("t", Ctr(0, << >>)), Lam("a", Lam("b", Var("a")))))

(* !1<a b> = \x: !1<c d> = x; $0:2{c \k: k}; (b a): a duplicated abstraction *)
(* applied to its own copy; the inner duplicator, of the same color,       *)
(* meets the pair LET-LAM leaves for x                                     *)
TermUniq == Let(1, "a", "b",
                Lam("x", Let(1, "c", "d", Var("x"),
                             Ctr(0, <<Var("c"), Lam("k", Var("k"))>>))),
                App(Var("b"), Var("a")))

(* ((\a: &1<\b: b $7:0{}> &1<!0<c d> = $7:0{}; d $7:0{}>)                  *)
(*  !0<e f> = $0:1{$7:0{}}; (e f)): an erased argument that holds a        *)
(* projection, and a constructor of one field that is duplicated           *)
TermWhnf == App(App(Lam("a", Par(1, Lam("b", Var("b")), Ctr(7, << >>))),
                    Par(1, Let(0, "c", "d", Ctr(7, << >>), Var("d")), Ctr(7, << >>))),
                Let(0, "e", "f", Ctr(0, <<Ctr(7, << >>)>>), App(Var("e"), Var("f"))))

(* (\x: (x x) \y: y): the name x occurs twice *)
TermS2 == App(Lam("x", App(Var("x"), Var("x"))), Lam("y", Var("y")))

(* (&0<\x: x \x: x> \k: k): the name x is bound twice *)
TermS4x == App(Par(0, Lam("x", Var("x")), Lam("x", Var("x"))), Lam("k", Var("k")))

(* (\x: !0<a b> = x; (a b) \y: !0<c d> = y; (c d)): self-application      *)
(* applied to itself, every duplicator of color 0                          *)
TermOmega == App(Lam("x", Let(0, "a", "b", Var("x"), App(Var("a"), Var("b")))),
                 Lam("y", Let(0, "c", "d", Var("y"), App(Var("c"), Var("d")))))

(* (\f: \z: !0<g h> = f; (g (h z)) \k: k): the numeral two applied to the   *)
(* identity                                                                *)
TermTwo == App(Lam("f", Lam("z", Let(0, "g", "h", Var("f"),
                                     App(Var("g"), App(Var("h"), Var("z")))))),
               Lam("k", Var("k")))

(* !0<r s> = \x: (&0<\a: x \b: b> \k: k); &0<r s>: TermSeen with a pair of    *)
(* the same color at the root                                              *)
TermSeenP == Let(0, "r", "s",
                 Lam("x", App(Par(0, Lam("a", Var("x")), Lam("b", Var("b"))),
                              Lam("k", Var("k")))),
                 Par(0, Var("r"), Var("s")))

(* The terms are heterogeneous trees, so the program text `code` is kept  *)
(* by name.                                                                *)
Codes == {"S1", "S3", "S4", "Confl", "Seen", "Free", "Comm", "Ctr", "Scope",
          "Uniq", "Whnf", "S2", "S4x"}

TermOf(c) ==
  CASE c = "S1" -> TermS1
    [] c = "S3" -> TermS3
    [] c = "S4" -> TermS4
    [] c = "Confl" -> TermConfl
    [] c = "Seen" -> TermSeen
    [] c = "Free" -> TermFree
    [] c = "Comm" -> TermComm
    [] c = "Ctr" -> TermCtr
    [] c = "Scope" -> TermScope
    [] c = "Uniq" -> TermUniq
    [] c = "Whnf" -> TermWhnf
    [] c = "S2" -> TermS2
    [] c = "S4x" -> TermS4x
    [] c = "Omega" -> TermOmega
    [] c = "Two" -> TermTwo
    [] c = "SeenP" -> TermSeenP

----------------------------------------------------------------------------
(* Bounds *)

MaxLim == 3
MaxIdle == 2
MaxPrim == 2
MaxCell == 1
MaxPos == 2
MaxDepth == 12
LongLim == 8

Lims == {Infinity} \cup (0 .. MaxLim)

----------------------------------------------------------------------------
(* State *)

VARIABLES
  MEM, RE0, RE1, RE2, RE3,  \* the heap and the free lists (part_001:136-140)
  GAS, LIM,                 \* part_001:141-142
  dead,                     \* history: cells freed and not handed out again
  code,                     \* the name of the term that was read (part_001:968-1002)
  stack,                    \* activations of reduce and of normal's go
  ret,                      \* the value the last return statement returned
  seen,                     \* the seen map of the running normal call
  visited,                  \* history: the slots go has called reduce on in this call
  rule,                     \* history: the rewrite rule the last step fired
  drv,                      \* the caller: which call is running, pass bookkeeping
  ref,                      \* history: the outcome of the previous run
  prim                      \* history: the last direct call of a heap primitive

vars == <<MEM, RE0, RE1, RE2, RE3, GAS, LIM, dead, code, stack, ret, seen, visited, rule, drv, ref, prim>>

Heap == [MEM |-> MEM, RE0 |-> RE0, RE1 |-> RE1, RE2 |-> RE2, RE3 |-> RE3, dead |-> dead]

SetHeap(h) ==
  /\ MEM' = h.MEM
  /\ RE0' = h.RE0
  /\ RE1' = h.RE1
  /\ RE2' = h.RE2
  /\ RE3' = h.RE3
  /\ dead' = h.dead

SameHeap == UNCHANGED <<MEM, RE0, RE1, RE2, RE3, dead>>

NoRet == [fn |-> "none", host |-> 0, val |-> 0]

(* no primitive has been called directly *)
NoPrim ==
  [n |-> 0, op |-> "none", a |-> 0, b |-> 0, out |-> 0, before |-> EmptyHeap,
   prev |-> [op |-> "none", a |-> 0, b |-> 0]]

(* an activation as it starts; gas is history, the value of GAS at the call *)
Frame(fn, host) == [fn |-> fn, pc |-> IF fn = "reduce" THEN "top" ELSE "enter",
                    host |-> host, term |-> 0, i |-> 0, gas |-> GAS]

Top == stack[Len(stack)]

Running(fn, pc) == stack # << >> /\ Top.fn = fn /\ Top.pc = pc

(* the comparison with > in place of >= *)
GasOutStrict == LIM # Infinity /\ GAS > LIM

(* GAS >= LIM (part_001:764, 779, 814, 849, 893) *)
GasOut == LIM # Infinity /\ GAS >= LIM

(* the statement `return v` of the running activation *)
Return(v) ==
  /\ ret' = [fn |-> Top.fn, host |-> Top.host, val |-> v]
  /\ stack' = Front(stack)

(* the running activation calls fn(host) and resumes at pc *)
Call(fn, host, pc, term) ==
  /\ Len(stack) < MaxDepth
  /\ stack' = Append(Front(stack), [Top EXCEPT !.pc = pc, !.term = term]) \o <<Frame(fn, host)>>
  /\ ret' = NoRet

(* the running activation goes on at pc *)
Goto(pc, term, i) ==
  /\ stack' = Append(Front(stack), [Top EXCEPT !.pc = pc, !.term = term, !.i = i])
  /\ ret' = NoRet

Rules == {"app-lam", "app-par", "let-lam", "let-par", "let-ctr"}

----------------------------------------------------------------------------
(* reduce (part_001:752-918) *)

(* case APP: let func = reduce(get_loc(term,0)) *)
reduce_app ==
  /\ Running("reduce", "top")
  /\ get_tag(MEM[Top.host]) = APP
  /\ Call("reduce", get_loc(MEM[Top.host], 0), "app", MEM[Top.host])
  /\ rule' = "none"
  /\ SameHeap
  /\ UNCHANGED <<GAS, LIM, code, seen, visited, drv, ref, prim>>

(* case DP0, DP1: let expr = reduce(get_loc(term,2)) *)
reduce_dup ==
  /\ Running("reduce", "top")
  /\ get_tag(MEM[Top.host]) \in {DP0, DP1}
  /\ Call("reduce", get_loc(MEM[Top.host], 2), "dp", MEM[Top.host])
  /\ rule' = "none"
  /\ SameHeap
  /\ UNCHANGED <<GAS, LIM, code, seen, visited, drv, ref, prim>>

(* any other tag: return term (part_001:916) *)
reduce_other ==
  /\ Running("reduce", "top")
  /\ get_tag(MEM[Top.host]) \notin {APP, DP0, DP1}
  /\ Return(MEM[Top.host])
  /\ rule' = "none"
  /\ SameHeap
  /\ UNCHANGED <<GAS, LIM, code, seen, visited, drv, ref, prim>>

(* the tags the inner switch of each case has a rule for *)
Dispatch(pc) == IF pc = "app" THEN {LAM, PAR} ELSE {LAM, PAR, CTR}

Returned(pc) == stack # << >> /\ Top.fn = "reduce" /\ Top.pc = pc /\ ret.fn = "reduce"

(* the break of the inner switch followed by a return of func / expr *)
reduce_stuck_inner ==
  /\ \E pc \in {"app", "dp"} : Returned(pc) /\ get_tag(ret.val) \notin Dispatch(pc)
  /\ Return(ret.val)
  /\ rule' = "none"
  /\ SameHeap
  /\ UNCHANGED <<GAS, LIM, code, seen, visited, drv, ref, prim>>

(* no rule for the tag of func / expr: break, return term *)
reduce_stuck ==
  /\ \E pc \in {"app", "dp"} : Returned(pc) /\ get_tag(ret.val) \notin Dispatch(pc)
  /\ Return(Top.term)
  /\ rule' = "none"
  /\ SameHeap
  /\ UNCHANGED <<GAS, LIM, code, seen, visited, drv, ref, prim>>

(* the return of func / expr in place of term *)
reduce_gas_out_inner ==
  /\ \E pc \in {"app", "dp"} : Returned(pc) /\ get_tag(ret.val) \in Dispatch(pc)
  /\ GasOut
  /\ Return(ret.val)
  /\ rule' = "none"
  /\ SameHeap
  /\ UNCHANGED <<GAS, LIM, code, seen, visited, drv, ref, prim>>

(* if (GAS >= LIM) { return term; } *)
reduce_gas_out ==
  /\ \E pc \in {"app", "dp"} : Returned(pc) /\ get_tag(ret.val) \in Dispatch(pc)
  /\ GasOut
  /\ Return(Top.term)
  /\ rule' = "none"
  /\ SameHeap
  /\ UNCHANGED <<GAS, LIM, code, seen, visited, drv, ref, prim>>

(* a rule that ends with `continue` and leaves out ++GAS *)
ContinueNoGas(h, name) ==
  /\ SetHeap(h)
  /\ GAS' = GAS
  /\ Goto("top", 0, 0)
  /\ rule' = name
  /\ UNCHANGED <<LIM, code, seen, visited, drv, ref, prim>>

(* a rule that ends with `return MEM[host]` where the source has `continue` *)
ContinueReturn(h, name) ==
  /\ SetHeap(h)
  /\ GAS' = GAS + 1
  /\ Return(h.MEM[Top.host])
  /\ rule' = name
  /\ UNCHANGED <<LIM, code, seen, visited, drv, ref, prim>>

(* a rule that ends with `continue` *)
Continue(h, name) ==
  /\ SetHeap(h)
  /\ GAS' = GAS + 1
  /\ Goto("top", 0, 0)
  /\ rule' = name
  /\ UNCHANGED <<LIM, code, seen, visited, drv, ref, prim>>

(* a rule that ends with `return MEM[host]` *)
Finish(h, name) ==
  /\ SetHeap(h)
  /\ GAS' = GAS + 1
  /\ Return(h.MEM[Top.host])
  /\ rule' = name
  /\ UNCHANGED <<LIM, code, seen, visited, drv, ref, prim>>

reduce_app_lam ==
  /\ Returned("app") /\ get_tag(ret.val) = LAM /\ ~GasOut
  /\ Continue(rule_app_lam(Heap, Top.host, Top.term, ret.val), "app-lam")

reduce_app_par ==
  /\ Returned("app") /\ get_tag(ret.val) = PAR /\ ~GasOut
  /\ Finish(rule_app_par(Heap, Top.host, Top.term, ret.val), "app-par")

(* LET-LAM fired on an App as well *)
reduce_let_lam_app ==
  /\ Returned("dp") /\ get_tag(ret.val) \in {LAM, APP} /\ ~GasOut
  /\ Continue(rule_let_lam(Heap, Top.host, Top.term, ret.val), "let-lam")

reduce_let_lam ==
  /\ Returned("dp") /\ get_tag(ret.val) = LAM /\ ~GasOut
  /\ Continue(rule_let_lam(Heap, Top.host, Top.term, ret.val), "let-lam")

reduce_let_par_eq ==
  /\ Returned("dp") /\ get_tag(ret.val) = PAR /\ ~GasOut
  /\ get_ex0(Top.term) = get_ex0(ret.val)
  /\ Continue(rule_let_par_eq(Heap, Top.host, Top.term, ret.val), "let-par")

reduce_let_par_ne ==
  /\ Returned("dp") /\ get_tag(ret.val) = PAR /\ ~GasOut
  /\ get_ex0(Top.term) # get_ex0(ret.val)
  /\ Finish(rule_let_par_ne(Heap, Top.host, Top.term, ret.val), "let-par")

reduce_let_ctr ==
  /\ Returned("dp") /\ get_tag(ret.val) = CTR /\ ~GasOut
  /\ Finish(rule_let_ctr(Heap, Top.host, Top.term, ret.val), "let-ctr")

reduce ==
  \/ reduce_app \/ reduce_dup \/ reduce_other \/ reduce_stuck \/ reduce_gas_out
  \/ reduce_app_lam \/ reduce_app_par
  \/ reduce_let_lam \/ reduce_let_par_eq \/ reduce_let_par_ne \/ reduce_let_ctr

----------------------------------------------------------------------------
(* normal (part_001:920-961): the inner function go *)

(* the child slots go recurses into, in order *)
NKids(term) ==
  CASE get_tag(term) \in {LAM, DP0, DP1} -> 1
    [] get_tag(term) \in {APP, PAR} -> 2
    [] get_tag(term) \in {CAL, CTR} -> get_ex0(term)
    [] OTHER -> 0

KidLoc(term, i) ==
  CASE get_tag(term) = LAM -> get_loc(term, 1)
    [] get_tag(term) \in {DP0, DP1} -> get_loc(term, 2)
    [] OTHER -> get_loc(term, i)

(* if (seen[get_loc(term,0)]) return term *)
go_seen ==
  /\ Running("go", "enter")
  /\ get_loc(MEM[Top.host], 0) \in seen
  /\ Return(MEM[Top.host])
  /\ rule' = "none"
  /\ SameHeap
  /\ UNCHANGED <<GAS, LIM, code, seen, visited, drv, ref, prim>>

(* term = reduce(host) *)
go_reduce ==
  /\ Running("go", "enter")
  /\ get_loc(MEM[Top.host], 0) \notin seen
  /\ Call("reduce", Top.host, "reduced", MEM[Top.host])
  /\ rule' = "none"
  /\ SameHeap
  /\ UNCHANGED <<GAS, LIM, code, seen, visited, drv, ref, prim>>

(* seen[get_loc(term,0)] = true *)
go_mark ==
  /\ Running("go", "reduced")
  /\ ret.fn = "reduce"
  /\ seen' = seen \cup {get_loc(ret.val, 0)}
  /\ visited' = visited \cup {Top.host}
  /\ Goto("kids", ret.val, 0)
  /\ rule' = "none"
  /\ SameHeap
  /\ UNCHANGED <<GAS, LIM, code, drv, ref, prim>>

(* the call go(get_loc(term,i)) inside link(..., go(...)) *)
go_child ==
  /\ Running("go", "kids")
  /\ Top.i < NKids(Top.term)
  /\ Call("go", KidLoc(Top.term, Top.i), "link", Top.term)
  /\ rule' = "none"
  /\ SameHeap
  /\ UNCHANGED <<GAS, LIM, code, seen, visited, drv, ref, prim>>

(* the link made at host in place of get_loc(term,i) *)
go_link_host ==
  /\ Running("go", "link")
  /\ ret.fn = "go"
  /\ SetHeap(link(Heap, Top.host, ret.val))
  /\ Goto("kids", Top.term, Top.i + 1)
  /\ rule' = "none"
  /\ UNCHANGED <<GAS, LIM, code, seen, visited, drv, ref, prim>>

(* link(get_loc(term,i), <the value go returned>) *)
go_link ==
  /\ Running("go", "link")
  /\ ret.fn = "go"
  /\ SetHeap(link(Heap, KidLoc(Top.term, Top.i), ret.val))
  /\ Goto("kids", Top.term, Top.i + 1)
  /\ rule' = "none"
  /\ UNCHANGED <<GAS, LIM, code, seen, visited, drv, ref, prim>>

(* return term *)
go_return ==
  /\ Running("go", "kids")
  /\ Top.i >= NKids(Top.term)
  /\ Return(Top.term)
  /\ rule' = "none"
  /\ SameHeap
  /\ UNCHANGED <<GAS, LIM, code, seen, visited, drv, ref, prim>>

normal == go_seen \/ go_reduce \/ go_mark \/ go_child \/ go_link \/ go_return

----------------------------------------------------------------------------
(* The caller.  The program reads a term and calls normal(0)               *)
(* (part_001:1002-1005); the header comment (part_001:28-39) has normal    *)
(* called again until all terms are reduced, so the caller here repeats    *)
(* normal(0) until MaxIdle passes in a row fired no rule.  Before the      *)
(* first pass it may call reduce on one slot of its choice (drv.first).    *)

(* the slots a first reduce call may be made on: those holding an          *)
(* application or a projection                                             *)
FirstChoices(m) == {<< >>} \cup {<<c>> : c \in {k \in DOMAIN m : get_tag(m[k]) \in {APP, DP0, DP1}}}

(* the rule a reduce call on slot c fires first, when the slot holds a     *)
(* redex                                                                   *)
RedexKind(m, c) ==
  CASE get_tag(m[c]) = APP /\ get_tag(m[get_loc(m[c], 0)]) = LAM -> "app-lam"
    [] get_tag(m[c]) = APP /\ get_tag(m[get_loc(m[c], 0)]) = PAR -> "app-par"
    [] get_tag(m[c]) \in {DP0, DP1} /\ get_tag(m[get_loc(m[c], 2)]) = LAM -> "let-lam"
    [] get_tag(m[c]) \in {DP0, DP1} /\ get_tag(m[get_loc(m[c], 2)]) = PAR -> "let-par"
    [] get_tag(m[c]) \in {DP0, DP1} /\ get_tag(m[get_loc(m[c], 2)]) = CTR -> "let-ctr"
    [] OTHER -> "none"

FirstKind(m, first) == IF first = << >> THEN "none" ELSE RedexKind(m, first[1])

NoRef == [set |-> FALSE, GAS |-> 0, MEM |-> << >>, first |-> << >>, kind |-> "none", nf |-> {}]

StartDrv(m, first) ==
  [phase |-> "start", first |-> first, kind |-> FirstKind(m, first),
   gas0 |-> 0, mem0 |-> m, idle |-> 0, after_idle |-> FALSE]

whnf_call ==
  /\ drv.phase = "start"
  /\ drv.first # << >>
  /\ stack' = <<Frame("reduce", drv.first[1])>>
  /\ drv' = [drv EXCEPT !.phase = "whnf"]
  /\ ret' = NoRet
  /\ rule' = "none"
  /\ SameHeap
  /\ UNCHANGED <<GAS, LIM, code, seen, visited, ref, prim>>

whnf_ret ==
  /\ drv.phase = "whnf"
  /\ stack = << >>
  /\ drv' = [drv EXCEPT !.phase = "between"]
  /\ rule' = "none"
  /\ SameHeap
  /\ UNCHANGED <<GAS, LIM, code, stack, ret, seen, visited, ref, prim>>

(* normal(0): var seen = {}; return go(host) *)
normal_call ==
  /\ \/ drv.phase = "start" /\ drv.first = << >>
     \/ drv.phase = "between" /\ drv.idle < MaxIdle
  /\ seen' = {}
  /\ visited' = {}
  /\ stack' = <<Frame("go", 0)>>
  /\ drv' = [drv EXCEPT !.phase = "pass", !.gas0 = GAS, !.mem0 = MEM,
                        !.after_idle = (drv.idle >= 1)]
  /\ ret' = NoRet
  /\ rule' = "none"
  /\ SameHeap
  /\ UNCHANGED <<GAS, LIM, code, ref, prim>>

normal_ret ==
  /\ drv.phase = "pass"
  /\ stack = << >>
  /\ drv' = [drv EXCEPT !.phase = "between",
                        !.idle = IF GAS = drv.gas0 THEN drv.idle + 1 ELSE 0]
  /\ rule' = "none"
  /\ SameHeap
  /\ UNCHANGED <<GAS, LIM, code, stack, ret, seen, visited, ref, prim>>

caller == whnf_call \/ whnf_ret \/ normal_call \/ normal_ret

----------------------------------------------------------------------------
(* The graph under the root slot, read back without its heap positions:    *)
(* the unfolding of the graph into the paths from the root, each path with *)
(* the tag and the extra fields of the pointer it ends at.  A Var names    *)
(* its Lam by the paths that end at the Lam, a Dp0 or Dp1 its duplicator   *)
(* by the paths that end at a projection of it.                            *)

RootVisit == [path |-> << >>, cell |-> 0, anc |-> {}]

KidVisits(m, v) ==
  IF v.cell \in v.anc \/ v.cell \notin DOMAIN m THEN {}
  ELSE {[path |-> Append(v.path, i), cell |-> KidLoc(m[v.cell], i),
         anc |-> v.anc \cup {v.cell}] : i \in 0 .. (NKids(m[v.cell]) - 1)}

RECURSIVE Visits(_, _, _)
Visits(m, frontier, acc) ==
  IF frontier = {} THEN acc
  ELSE Visits(m, UNION {KidVisits(m, v) : v \in frontier}, acc \cup frontier)

PathsTo(m, vs, tags, pos) ==
  {w.path : w \in {v \in vs : /\ v.cell \in DOMAIN m
                              /\ get_tag(m[v.cell]) \in tags
                              /\ get_pos(m[v.cell]) = pos}}

CanonRef(m, vs, p) ==
  CASE get_tag(p) = VAR -> PathsTo(m, vs, {LAM}, get_pos(p))
    [] get_tag(p) \in {DP0, DP1} -> PathsTo(m, vs, {DP0, DP1}, get_pos(p))
    [] OTHER -> {}

CanonNode(m, vs, v) ==
  IF v.cell \in v.anc \/ v.cell \notin DOMAIN m
  THEN [path |-> v.path, tag |-> LNK, ex0 |-> 0, ex1 |-> 0, binder |-> {}]
  ELSE [path |-> v.path, tag |-> get_tag(m[v.cell]), ex0 |-> get_ex0(m[v.cell]),
        ex1 |-> get_ex1(m[v.cell]), binder |-> CanonRef(m, vs, m[v.cell])]

CanonOf(m, vs) == {CanonNode(m, vs, v) : v \in vs}

Canon(m) == CanonOf(m, Visits(m, {RootVisit}, {}))

----------------------------------------------------------------------------
(* Running the program again.  When a run without a gas limit is over,     *)
(* its outcome is kept in ref and the same term is read and normalized      *)
(* again (part_001:1002-1005): under a gas limit with the same first call, *)
(* or without a limit with another first call.                             *)

RunOver == drv.phase = "between" /\ drv.idle >= MaxIdle

reload ==
  /\ RunOver
  /\ ~ref.set
  /\ LIM = Infinity
  /\ \E h \in {read(TermOf(code))} : \E l \in Lims : \E f \in FirstChoices(h.MEM) :
       /\ l = Infinity \/ f = drv.first
       /\ SetHeap(h)
       /\ GAS' = 0
       /\ LIM' = l
       /\ drv' = StartDrv(h.MEM, f)
  /\ ref' = [set |-> TRUE, GAS |-> GAS, MEM |-> MEM, first |-> drv.first,
             kind |-> drv.kind, nf |-> Canon(MEM)]
  /\ stack' = << >>
  /\ ret' = NoRet
  /\ seen' = {}
  /\ visited' = {}
  /\ rule' = "none"
  /\ UNCHANGED <<code, prim>>

----------------------------------------------------------------------------
(* Specification: one run of the program on a term of Codes, under a gas   *)
(* limit of Lims.                                                          *)

InitOn(codes, lims) ==
  \E c \in codes : \E h \in {read(TermOf(c))} :
      /\ code = c
      /\ MEM = h.MEM
      /\ RE0 = h.RE0
      /\ RE1 = h.RE1
      /\ RE2 = h.RE2
      /\ RE3 = h.RE3
      /\ dead = h.dead
      /\ GAS = 0
      /\ LIM \in lims
      /\ stack = << >>
      /\ ret = NoRet
      /\ seen = {}
      /\ visited = {}
      /\ rule = "none"
      /\ drv \in {StartDrv(h.MEM, f) : f \in FirstChoices(h.MEM)}
      /\ ref = NoRef
      /\ prim = NoPrim

Init == InitOn(Codes, Lims)

Next == reduce \/ normal \/ caller

Spec == Init /\ [][Next]_vars

(* Specification: a run without a gas limit, then one more run of the same *)
(* term to compare with it.                                                *)

InitRuns == Init /\ LIM = Infinity

NextRuns == Next \/ reload

SpecRuns == InitRuns /\ [][NextRuns]_vars

(* Specification: the program runs on without pause (one thread, no        *)
(* input awaited), on the terms of Codes and on TermOmega, also under a    *)
(* gas limit that is finite and above the rewrites of TermOmega.           *)

InitLive == InitOn(Codes \cup {"Omega"}, Lims \cup {LongLim})

NextLive == Next

SpecLive == InitLive /\ [][NextLive]_vars /\ WF_vars(NextLive)

----------------------------------------------------------------------------
(* Specification: the heap primitives called one by one.  A graph builder  *)
(* reads a term and then calls alloc, free, link and subst directly, at    *)
(* most MaxPrim times, on positions up to MaxCell and on pointers that     *)
(* the heap holds.  prim keeps the call (op, its arguments a and b, the    *)
(* value out it returned), the heap before it and the call before it.      *)

PrimCall(op, a, b, h, out) ==
  /\ prim.n < MaxPrim
  /\ SetHeap(h)
  /\ prim' = [n |-> prim.n + 1, op |-> op, a |-> a, b |-> b, out |-> out, before |-> Heap,
               prev |-> [op |-> prim.op, a |-> prim.a, b |-> prim.b]]
  /\ UNCHANGED <<GAS, LIM, code, stack, ret, seen, visited, rule, drv, ref>>

(* the pointers the heap holds *)
PrimTerms(m) == {m[k] : k \in DOMAIN m}

(* pos = alloc(size) *)
prim_alloc ==
  \E size \in 0 .. 3 : \E r \in {alloc(Heap, size)} : PrimCall("alloc", size, 0, r.h, r.pos)

(* free(pos, size), of cells the heap has *)
prim_free ==
  \E pos \in 0 .. MaxCell : \E size \in 0 .. 3 :
    /\ pos + size <= MemLen(MEM)
    /\ PrimCall("free", pos, size, free(Heap, pos, size), 0)

(* link(pos, term) *)
prim_link ==
  \E pos \in 0 .. MaxCell : \E term \in PrimTerms(MEM) :
    /\ pos < MemLen(MEM)
    /\ PrimCall("link", pos, term, link(Heap, pos, term), 0)

(* subst(lnk, val), lnk being the content of a binder slot: NIL or a Lnk   *)
(* that one of the first cells holds.                                      *)
(* With NIL, collect walks the graph under val; it is called on the heap   *)
(* the reader built, where that graph is a tree.                           *)
prim_subst ==
  \E lnk \in {MEM[k] : k \in 0 .. MaxCell} \cup {ptr(NIL, 0, 0, 0)} : \E val \in PrimTerms(MEM) :
    /\ get_tag(lnk) \in {NIL, LNK}
    /\ get_tag(lnk) = NIL => prim.n = 0
    /\ PrimCall("subst", lnk, val, subst(Heap, lnk, val), 0)

InitPrim == Init /\ code = "S3" /\ LIM = Infinity /\ drv.first = << >>

NextPrim == prim_alloc \/ prim_free \/ prim_link \/ prim_subst

SpecPrim == InitPrim /\ [][NextPrim]_vars

----------------------------------------------------------------------------
(* The pointer encoding on its own: ptr is applied to a tag, a position    *)
(* and two extension bytes, and the accessors to the pointer it returns,   *)
(* once per behaviour: the functions are pure.                             *)
(* ptr & 0xF and Math.floor(ptr / MUL) & 0xFF are % 16 and \div MUL % 256  *)
(* for the non-negative values below 2^31 that the model's integers hold:  *)
(* the largest position is 2^11 - 1.                                       *)
PtrTags == 0 .. 15

PtrExts == {0, 1, 2 ^ 8 - 1}

PtrPoss == (0 .. MaxPos) \cup {2 ^ 11 - 1}

PtrArgs == 0 .. 2

PtrInputs == PtrTags \X PtrPoss \X PtrExts \X PtrExts

PtrOf(f) == ptr(f[1], f[2], f[3], f[4])

Fields(p) == <<get_tag(p), get_pos(p), get_ex0(p), get_ex1(p)>>

prim_ptr ==
  \E f \in PtrInputs : \E arg \in PtrArgs : \E p \in {PtrOf(f)} :
    /\ prim.n = 0
    /\ prim' = [NoPrim EXCEPT !.n = 1, !.op = "ptr", !.a = f, !.b = arg,
                              !.out = [p |-> p, fields |-> Fields(p), loc |-> get_loc(p, arg)]]
    /\ SameHeap
    /\ UNCHANGED <<GAS, LIM, code, stack, ret, seen, visited, rule, drv, ref>>

NextPtr == prim_ptr

SpecPtr == InitPrim /\ [][NextPtr]_vars

----------------------------------------------------------------------------
(* Specification: the collector called once on the heap the reader built   *)
(* from a term of Codes, on the pointer of a cell of its choice, with that *)
(* cell as host or with no host.  prim keeps the call: a is the term, b    *)
(* the host.                                                               *)

prim_collect ==
  \E c \in DOMAIN MEM : \E host \in {c, null} :
    /\ prim.n = 0
    /\ get_tag(MEM[c]) \notin {NIL, LNK}
    /\ SetHeap(collect(Heap, MEM[c], host))
    /\ prim' = [NoPrim EXCEPT !.n = 1, !.op = "collect", !.a = MEM[c], !.b = host, !.before = Heap]
    /\ UNCHANGED <<GAS, LIM, code, stack, ret, seen, visited, rule, drv, ref>>

InitCollect == Init /\ LIM = Infinity /\ drv.first = << >>

NextCollect == prim_collect

SpecCollect == InitCollect /\ [][NextCollect]_vars

----------------------------------------------------------------------------
(* Graph predicates used by the properties.                                *)

(* the transitive closure of the child-slot relation from slot c: the      *)
(* slots a traversal from c can meet (a projection leads to the            *)
(* expression slot of its duplicator)                                      *)
KidSlots(m, c) ==
  IF c \notin DOMAIN m THEN {}
  ELSE {KidLoc(m[c], i) : i \in 0 .. (NKids(m[c]) - 1)}

RECURSIVE ReachFrom(_, _, _)
ReachFrom(m, frontier, acc) ==
  IF frontier = {} THEN acc
  ELSE ReachFrom(m, (UNION {KidSlots(m, c) : c \in frontier}) \ (acc \cup frontier),
                 acc \cup frontier)

Reach(m, c) == ReachFrom(m, {c}, {})

(* the slot a variable-bearing pointer names *)
BinderSlot(p) == IF get_tag(p) = DP1 THEN get_loc(p, 1) ELSE get_loc(p, 0)

(* a Var, Dp0 or Dp1 in cell i names a slot that holds Lnk(i) *)
BackEdgeAt(m, i) ==
  get_tag(m[i]) \in {VAR, DP0, DP1} =>
    /\ BinderSlot(m[i]) \in DOMAIN m
    /\ m[BinderSlot(m[i])] = ptr(LNK, i, 0, 0)

BackEdgeOK(m) == \A i \in DOMAIN m : BackEdgeAt(m, i)

(* a redex at slot c *)
IsRedex(m, c) ==
  \/ get_tag(m[c]) = APP /\ get_tag(m[get_loc(m[c], 0)]) \in {LAM, PAR}
  \/ get_tag(m[c]) \in {DP0, DP1} /\ get_tag(m[get_loc(m[c], 2)]) \in {LAM, PAR, CTR}

(* the cells of the graph under the root that hold a pointer of the given  *)
(* tag and position                                                        *)
Occurrences(m, tag, pos) ==
  {c \in Reach(m, 0) : get_tag(m[c]) = tag /\ get_pos(m[c]) = pos}

BinderUnique(m) ==
  \A c \in Reach(m, 0) :
    get_tag(m[c]) \in {VAR, DP0, DP1} =>
      Occurrences(m, get_tag(m[c]), get_pos(m[c])) = {c}

(* the cells a pointer names: the node of a Lam, App or Par, the node of   *)
(* the duplicator of a Dp0 or Dp1, the fields of a Ctr or Cal, the node of *)
(* the Lam that binds a Var                                                *)
NamedCells(p) ==
  CASE get_tag(p) \in {LAM, APP, PAR, VAR} -> get_pos(p) .. (get_pos(p) + 1)
    [] get_tag(p) \in {DP0, DP1} -> get_pos(p) .. (get_pos(p) + 2)
    [] get_tag(p) \in {CTR, CAL} -> get_pos(p) .. (get_pos(p) + get_ex0(p) - 1)
    [] OTHER -> {}

Dangling(m, d) == {c \in Reach(m, 0) : NamedCells(m[c]) \cap d # {}}

(* the three conditions together: the graph is well formed                 *)
WellFormed(m, d) == BackEdgeOK(m) /\ BinderUnique(m) /\ Dangling(m, d) = {}

(* the graph the reader built for the term is well formed: every name is   *)
(* bound once and used at most once                                        *)
Linear == WellFormed(read(TermOf(code)).MEM, {})

----------------------------------------------------------------------------
(* C1.  Back-edge integrity: in the heap a rewrite rule leaves behind,     *)
(* every cell i that holds Var(L) has MEM[L] = Lnk(i), every cell that     *)
(* holds Dp0(d) has MEM[d] = Lnk(i) and every cell that holds Dp1(d) has   *)
(* MEM[d+1] = Lnk(i), provided the heap the reader built satisfies it.     *)
C1_BackEdgeIntegrity == (Linear /\ rule \in Rules) => BackEdgeOK(MEM)

----------------------------------------------------------------------------
(* C2.  Binder uniqueness: in the graph reachable from the root slot, no   *)
(* two cells hold a Var of the same Lam, a Dp0 of the same duplicator or   *)
(* a Dp1 of the same duplicator, provided this holds of the graph the      *)
(* reader built.                                                           *)
C2_BinderUniqueness == Linear => BinderUnique(MEM)

----------------------------------------------------------------------------
(* C3.  No dangling pointers: no cell reachable from the root slot holds   *)
(* a pointer that names cells which were passed to free and have not been  *)
(* handed out again by alloc, in a run that starts from a well-formed      *)
(* graph.                                                                  *)
C3_NoDangling == Linear => Dangling(MEM, dead) = {}

(* GAS < LIM, and GAS >= LIM, as the properties read them                  *)
BelowLimit == LIM = Infinity \/ GAS < LIM

Exhausted == LIM # Infinity /\ GAS >= LIM

----------------------------------------------------------------------------
(* C4.  Gas monotonicity: a step that fires APP-LAM, APP-PAR, LET-LAM,     *)
(* LET-PAR or LET-CTR increases GAS by exactly 1, and every other step of  *)
(* reduce, normal and the caller leaves GAS as it is; so GAS never         *)
(* decreases.                                                              *)
C4_GasMonotone == [][IF rule' \in Rules THEN GAS' = GAS + 1 ELSE GAS' = GAS]_vars

(* a rule has just fired, the third of its run *)
C4_Witness == rule \in Rules /\ GAS = 3

----------------------------------------------------------------------------
(* C5.  WHNF postcondition: when reduce(host) has returned with GAS < LIM  *)
(* and the graph is well formed, MEM[host] is not an App whose function    *)
(* slot holds a Lam or Par and not a Dp0/Dp1 whose expression slot holds   *)
(* a Lam, Par or Ctr.                                                      *)
C5_WhnfPostcondition ==
  (ret.fn = "reduce" /\ BelowLimit /\ WellFormed(MEM, dead)) => ~IsRedex(MEM, ret.host)

----------------------------------------------------------------------------
(* C6.  Fixpoint normalization: when a whole pass of normal(0) has fired   *)
(* no rule, with GAS < LIM, no slot reachable from the root holds a redex. *)
Redexes(m) == {c \in Reach(m, 0) : IsRedex(m, c)}

C6_FixpointNormal ==
  (drv.phase = "between" /\ drv.idle >= 1 /\ BelowLimit) => Redexes(MEM) = {}

----------------------------------------------------------------------------
(* C7.  Idempotence of normal: a pass of normal(0) that follows a pass     *)
(* which fired no rule leaves GAS and every cell of the heap as they were  *)
(* when it began.                                                          *)
C7_NormalIdempotent ==
  (drv.phase = "between" /\ drv.after_idle) => (GAS = drv.gas0 /\ MEM = drv.mem0)

(* such a pass has ended, after rules had fired in an earlier pass *)
C7_Witness == drv.phase = "between" /\ drv.after_idle /\ GAS >= 3 /\ BelowLimit

----------------------------------------------------------------------------
(* C8.  Gas exhaustion: while GAS >= LIM, a step of reduce fires no rule   *)
(* and leaves the heap, the free lists and GAS unchanged, and a call of    *)
(* reduce(host) made while GAS >= LIM returns the pointer that MEM[host]   *)
(* holds.                                                                  *)
C8_GasExhaustionNoOp ==
  [][(Exhausted /\ stack # << >> /\ Top.fn = "reduce") =>
       /\ rule' = "none"
       /\ UNCHANGED <<MEM, RE0, RE1, RE2, RE3, GAS>>
       /\ (Len(stack') < Len(stack) /\ Top.gas >= LIM) => ret'.val = MEM[Top.host]]_vars

(* reduce has returned a redex it was not allowed to rewrite *)
C8_Witness == Exhausted /\ ret.fn = "reduce" /\ IsRedex(MEM, ret.host) /\ GAS >= 1

----------------------------------------------------------------------------
(* C9.  Gas-limit convergence: a run under the limit LIM, of a term whose  *)
(* run without a limit fired ref.GAS rules, fires min(LIM, ref.GAS) rules, *)
(* and when LIM >= ref.GAS it ends with the heap of the run without a      *)
(* limit, so with the same normal form.                                    *)
Min(a, b) == IF a <= b THEN a ELSE b

C9_GasLimitConvergence ==
  (ref.set /\ RunOver /\ LIM # Infinity /\ drv.first = ref.first) =>
    /\ GAS = Min(LIM, ref.GAS)
    /\ LIM >= ref.GAS => (MEM = ref.MEM /\ Canon(MEM) = ref.nf)

(* a run under a limit that is enough has ended *)
C9_Witness ==
  ref.set /\ RunOver /\ LIM # Infinity /\ drv.first = ref.first /\ LIM >= ref.GAS /\ GAS >= 3

----------------------------------------------------------------------------
(* C10.  Confluence spot-check: on a term with an APP-PAR redex and a      *)
(* LET-LAM redex, the run whose first call fires APP-PAR and the run whose *)
(* first call fires LET-LAM end, both normalized to fixpoint, with the     *)
(* same graph up to heap positions.                                        *)
C10_ConfluenceSpotCheck ==
  (ref.set /\ RunOver /\ LIM = Infinity /\ ref.kind = "app-par" /\ drv.kind = "let-lam") =>
    Canon(MEM) = ref.nf

(* the two runs have ended, at different heap positions *)
C10_Witness ==
  /\ ref.set /\ RunOver /\ LIM = Infinity
  /\ ref.kind = "app-par" /\ drv.kind = "let-lam"
  /\ MEM # ref.MEM

----------------------------------------------------------------------------
(* C11.  No unreduced redex is duplicated: a step fires LET-LAM, LET-PAR   *)
(* or LET-CTR only when the call of reduce on the expression slot of the   *)
(* duplicator has returned, and the pointer it returned, whose node the    *)
(* rule copies, is the one the expression slot holds and is a Lam, a Par   *)
(* or a Ctr -- never an App.                                               *)
C11_NoRedexDuplicated ==
  [][rule' \in {"let-lam", "let-par", "let-ctr"} =>
       /\ ret.fn = "reduce"
       /\ ret.host = get_loc(Top.term, 2)
       /\ ret.val = MEM[ret.host]
       /\ get_tag(ret.val) \in {LAM, PAR, CTR}]_vars

(* a LET rule has fired on an expression that a rule of the inner call     *)
(* had to bring to whnf first                                              *)
C11_Witness ==
  /\ rule = "let-par" /\ stack # << >> /\ Top.fn = "reduce"
  /\ Top.gas + 2 = GAS /\ code = "Seen"

----------------------------------------------------------------------------
(* The end-to-end scenarios: a term is read and normal(0) is called,       *)
(* without a gas limit.                                                    *)

(* a pass of normal(0) has returned *)
PassDone == drv.phase = "between" /\ ret.fn = "go"

(* C12.  Scenario S1: when normal(0) has returned on the graph of          *)
(* (\x: x \a: \b: a), the graph under the root is \a: \b: a and GAS is 1.  *)
C12_ScenarioS1 ==
  (code = "S1" /\ LIM = Infinity /\ PassDone) =>
    /\ GAS = 1
    /\ Canon(MEM) = Canon(read(Lam("a", Lam("b", Var("a")))).MEM)

(* the first pass on S1 has returned *)
C12_Witness == code = "S1" /\ LIM = Infinity /\ PassDone /\ drv.first = << >> /\ drv.idle = 0

----------------------------------------------------------------------------
(* C13.  Scenario S3: when normal(0) has returned on the graph of          *)
(* !0<a b> = \x: x; (a b), the graph under the root is an identity         *)
(* abstraction \z: z and GAS is at least 3.                                *)
C13_ScenarioS3 ==
  (code = "S3" /\ LIM = Infinity /\ PassDone) =>
    /\ GAS >= 3
    /\ Canon(MEM) = Canon(read(Lam("z", Var("z"))).MEM)

(* the first pass on S3 has returned, after a first call on the second     *)
(* projection                                                              *)
C13_Witness == code = "S3" /\ LIM = Infinity /\ PassDone /\ drv.first = <<7>> /\ GAS = 3

----------------------------------------------------------------------------
(* C14.  Scenario S4: when normal(0) has returned on the graph of          *)
(* (&0<\x: x \x: x> \k: k), the graph under the root is the superposition  *)
(* of color 0 of two identity abstractions and GAS is at least 2.          *)
C14_ScenarioS4 ==
  (code = "S4x" /\ LIM = Infinity /\ PassDone) =>
    /\ GAS >= 2
    /\ Canon(MEM) = Canon(read(Par(0, Lam("k", Var("k")), Lam("j", Var("j")))).MEM)

----------------------------------------------------------------------------
(* C15.  Scenario S2: when normal(0) has returned on the graph the reader  *)
(* builds for (\x: (x x) \y: y), the graph under the root is \y: y and GAS *)
(* is at least 2.                                                          *)
C15_ScenarioS2 ==
  (code = "S2" /\ LIM = Infinity /\ PassDone) =>
    /\ GAS >= 2
    /\ Canon(MEM) = Canon(read(Lam("y", Var("y"))).MEM)

----------------------------------------------------------------------------
(* C16.  Arity consistency, in a run that starts from a well-formed graph: *)
(* the ex0 cells that a Ctr or Cal pointer under the root names are cells  *)
(* of the heap and are named by no other pointer under the root; and the   *)
(* constructors LET-CTR puts in place of the two projections have the      *)
(* arity ex0 and the id ex1 of the one it consumed.                        *)
C16_ArityConsistency ==
  [][/\ Linear =>
          \A c \in Reach(MEM', 0) :
            get_tag(MEM'[c]) \in {CTR, CAL} =>
              /\ NamedCells(MEM'[c]) \subseteq DOMAIN MEM'
              /\ \A e \in Reach(MEM', 0) :
                   MEM'[e] # MEM'[c] => NamedCells(MEM'[e]) \cap NamedCells(MEM'[c]) = {}
     /\ rule' = "let-ctr" =>
          \A i \in {0, 1} :
            get_tag(MEM[get_loc(Top.term, i)]) = LNK =>
              /\ get_tag(MEM'[get_pos(MEM[get_loc(Top.term, i)])]) = CTR
              /\ get_ex0(MEM'[get_pos(MEM[get_loc(Top.term, i)])]) = get_ex0(ret.val)
              /\ get_ex1(MEM'[get_pos(MEM[get_loc(Top.term, i)])]) = get_ex1(ret.val)]_vars

----------------------------------------------------------------------------
(* C17.  alloc and free, for a block size n of 1, 2 or 3.  free(p, n)      *)
(* leaves 0 in the cells p..p+n-1 and p at the end of the list of size n;  *)
(* alloc(n) called right after free(p, n) returns p; alloc(n) on an empty  *)
(* list of size n returns the length of the heap and adds n cells that     *)
(* hold 0 at its end; and no call makes the heap shorter.                  *)
C17_AllocFreeInverse ==
  /\ (prim.op = "free" /\ prim.b \in 1 .. 3) =>
       /\ \A k \in prim.a .. (prim.a + prim.b - 1) : MEM[k] = 0
       /\ Bucket(Heap, prim.b) = Append(Bucket(prim.before, prim.b), prim.a)
  /\ (prim.op = "alloc" /\ prim.a \in 1 .. 3 /\ prim.prev.op = "free" /\ prim.prev.b = prim.a) =>
       prim.out = prim.prev.a
  /\ (prim.op = "alloc" /\ prim.a \in 1 .. 3 /\ Bucket(prim.before, prim.a) = << >>) =>
       /\ prim.out = MemLen(prim.before.MEM)
       /\ MemLen(MEM) = MemLen(prim.before.MEM) + prim.a
       /\ \A k \in DOMAIN MEM : MEM[k] = IF k \in DOMAIN prim.before.MEM THEN prim.before.MEM[k] ELSE 0
  /\ prim.op # "none" => DOMAIN prim.before.MEM \subseteq DOMAIN MEM

(* alloc(2) has returned the block that free(1, 2) had just released *)
C17_Witness ==
  /\ prim.op = "alloc" /\ prim.a = 2 /\ prim.prev.op = "free" /\ prim.prev.b = 2
  /\ prim.prev.a = 1 /\ prim.out = 1

----------------------------------------------------------------------------
----------------------------------------------------------------------------
----------------------------------------------------------------------------
(* C20.  For a tag in 0..15, extension bytes in 0..255 and a position in   *)
(* range, the accessors give back the four fields ptr was applied to,      *)
(* get_loc(p, i) is get_pos(p) + i, and the pointer of any other four      *)
(* fields is a different number.                                           *)
C20_PtrRoundTrip ==
  prim.op = "ptr" =>
    /\ prim.out.fields = prim.a
    /\ prim.out.loc = get_pos(prim.out.p) + prim.b
    /\ \A g \in PtrInputs : (PtrOf(g) = prim.out.p) <=> (g = prim.a)

(* the largest pointer: every field at its upper end, second slot asked *)
C20_Witness ==
  /\ prim.op = "ptr" /\ prim.a = <<15, 2 ^ 11 - 1, 2 ^ 8 - 1, 2 ^ 8 - 1>> /\ prim.b = 1
  /\ prim.out.p = 2147483647 /\ prim.out.loc = 2 ^ 11

----------------------------------------------------------------------------
(* The step of a rewrite rule: the action that fires it leaves its name in *)
(* rule; host, the term fetched at host and the head the inner reduce call *)
(* returned are those of the running activation before the step.           *)

IsPrefix(s, t) == Len(s) <= Len(t) /\ SubSeq(t, 1, Len(s)) = s

(* no alloc call was made: the heap kept its length and no free list lost  *)
(* an entry                                                                *)
NothingAllocated ==
  /\ DOMAIN MEM' = DOMAIN MEM
  /\ IsPrefix(RE0, RE0') /\ IsPrefix(RE1, RE1') /\ IsPrefix(RE2, RE2') /\ IsPrefix(RE3, RE3')

(* the cells pos .. pos+size-1 hold 0 and pos is in the list of the size *)
Freed(pos, size) ==
  /\ \A k \in pos .. (pos + size - 1) : MEM'[k] = 0
  /\ \E j \in DOMAIN Bucket(Heap', size) : Bucket(Heap', size)[j] = pos

(* C21.  APP-LAM at host, on App(Lam(x, b), a): the cell that held the     *)
(* occurrence of x holds a (when x has an occurrence, outside the two      *)
(* nodes), MEM[host] holds the body b, or a when the body slot was the     *)
(* occurrence of x, the two cells of the App and the two of the Lam hold 0 *)
(* and are in the list of size 2, and no cell was allocated.               *)
C21_AppLam ==
  [][rule' = "app-lam" =>
       /\ get_tag(Top.term) = APP /\ get_tag(ret.val) = LAM
       /\ get_tag(MEM[get_loc(ret.val, 0)]) = LNK =>
            /\ get_pos(MEM[get_loc(ret.val, 0)]) \notin
                 {get_loc(ret.val, 0), get_loc(ret.val, 1), get_loc(Top.term, 0), get_loc(Top.term, 1)} =>
                 MEM'[get_pos(MEM[get_loc(ret.val, 0)])] = MEM[get_loc(Top.term, 1)]
            /\ MEM'[Top.host] =
                 IF get_pos(MEM[get_loc(ret.val, 0)]) = get_loc(ret.val, 1)
                 THEN MEM[get_loc(Top.term, 1)] ELSE MEM[get_loc(ret.val, 1)]
       /\ get_tag(MEM[get_loc(ret.val, 0)]) = NIL => MEM'[Top.host] = MEM[get_loc(ret.val, 1)]
       /\ Freed(get_loc(Top.term, 0), 2) /\ Freed(get_loc(ret.val, 0), 2)
       /\ NothingAllocated]_vars

(* APP-LAM has fired on S1: the root holds the argument, which took the    *)
(* place of x in the body slot                                             *)
C21_Witness ==
  /\ rule = "app-lam" /\ code = "S1" /\ GAS = 1 /\ get_tag(MEM[0]) = LAM
  /\ RE2 # << >>

----------------------------------------------------------------------------
(* the block pos .. pos+size-1 came from alloc: it lies past the end of    *)
(* the heap as it was, or it was in the list of its size and held 0        *)
Fresh(pos, size) ==
  \A k \in pos .. (pos + size - 1) :
    /\ k \in DOMAIN MEM'
    /\ \/ k \notin DOMAIN MEM
       \/ /\ MEM[k] = 0
          /\ \E j \in DOMAIN Bucket(Heap, size) : Bucket(Heap, size)[j] = pos

(* the blocks, given as <<pos, size>>, share no cell *)
Apart(blocks) ==
  \A i, j \in DOMAIN blocks :
    i # j => (blocks[i][1] .. (blocks[i][1] + blocks[i][2] - 1))
               \cap (blocks[j][1] .. (blocks[j][1] + blocks[j][2] - 1)) = {}

(* C22.  APP-PAR at host, on App(Par_c(f0, f1), a): MEM[host] holds a Par   *)
(* of color c on a fresh node whose slots hold App(f0, Dp0(d)) and         *)
(* App(f1, Dp1(d)) on fresh nodes, d being one fresh duplicator node of    *)
(* color c whose third slot holds a and whose first two slots hold Lnk to  *)
(* the argument slots of the two applications; the cells of the old App    *)
(* and of the old Par are freed.                                           *)
C22_AppPar ==
  [][rule' = "app-par" =>
       LET term == Top.term
           func == ret.val
           par0 == get_pos(MEM'[Top.host])
           app0 == get_pos(MEM'[par0])
           app1 == get_pos(MEM'[par0 + 1])
           let0 == get_pos(MEM'[app0 + 1])
       IN  /\ get_tag(term) = APP /\ get_tag(func) = PAR
           /\ MEM'[Top.host] = ptr(PAR, par0, get_ex0(func), 0)
           /\ MEM'[par0] = ptr(APP, app0, 0, 0)
           /\ MEM'[par0 + 1] = ptr(APP, app1, 0, 0)
           /\ MEM'[app0] = MEM[get_loc(func, 0)]
           /\ MEM'[app0 + 1] = ptr(DP0, let0, get_ex0(func), 0)
           /\ MEM'[app1] = MEM[get_loc(func, 1)]
           /\ MEM'[app1 + 1] = ptr(DP1, let0, get_ex0(func), 0)
           /\ MEM'[let0] = ptr(LNK, app0 + 1, 0, 0)
           /\ MEM'[let0 + 1] = ptr(LNK, app1 + 1, 0, 0)
           /\ MEM'[let0 + 2] = MEM[get_loc(term, 1)]
           /\ Fresh(let0, 3) /\ Fresh(app0, 2) /\ Fresh(app1, 2) /\ Fresh(par0, 2)
           /\ Apart(<< <<let0, 3>>, <<app0, 2>>, <<app1, 2>>, <<par0, 2>>,
                       <<get_loc(term, 0), 2>>, <<get_loc(func, 0), 2>> >>)
           /\ Freed(get_loc(term, 0), 2) /\ Freed(get_loc(func, 0), 2)
           /\ ret'.val = MEM'[Top.host]]_vars

(* APP-PAR has fired on S4 and the call has returned the new pair *)
C22_Witness ==
  /\ rule = "app-par" /\ code = "S4" /\ GAS = 1
  /\ get_tag(ret.val) = PAR /\ get_tag(MEM[get_pos(ret.val)]) = APP

----------------------------------------------------------------------------
(* C23.  LET-LAM at host, on a projection of Dup_c(r, s, Lam(x, f)) whose  *)
(* binder slots r, s and x are in use: the occurrence of r holds Lam(lam0) *)
(* and that of s holds Lam(lam1), lam0 and lam1 being fresh nodes whose    *)
(* bodies are Dp0 and Dp1, of color c, of one fresh duplicator node over   *)
(* f; the occurrence of x holds Par_c on a fresh node whose slots are      *)
(* Var(lam0) and Var(lam1) (it is the expression slot of the new           *)
(* duplicator when f was that occurrence); MEM[host] holds Lam(lam0) when  *)
(* the projection was a Dp0 and Lam(lam1) when it was a Dp1; the three     *)
(* cells of the old duplicator and the two of the old Lam are freed.       *)
C23_LetLam ==
  [][rule' = "let-lam" =>
       LET term == Top.term
           expr == ret.val
           r == MEM[get_loc(term, 0)]
           s == MEM[get_loc(term, 1)]
           x == MEM[get_loc(expr, 0)]
           let0 == get_pos(MEM'[get_loc(MEM'[Top.host], 1)])
           lam0 == get_pos(MEM'[let0]) - 1
           lam1 == get_pos(MEM'[let0 + 1]) - 1
           par0 == get_pos(MEM'[lam0])
           col == get_ex0(term)
       IN  /\ get_tag(term) \in {DP0, DP1} /\ get_tag(expr) = LAM
           /\ Freed(get_loc(term, 0), 3) /\ Freed(get_loc(expr, 0), 2)
           /\ (get_tag(r) = LNK /\ get_tag(s) = LNK /\ get_tag(x) = LNK) =>
                /\ MEM'[Top.host] = ptr(LAM, IF get_tag(term) = DP0 THEN lam0 ELSE lam1, 0, 0)
                /\ MEM'[get_pos(r)] = ptr(LAM, lam0, 0, 0)
                /\ MEM'[get_pos(s)] = ptr(LAM, lam1, 0, 0)
                /\ MEM'[lam0] = ptr(LNK, par0, 0, 0)
                /\ MEM'[lam1] = ptr(LNK, par0 + 1, 0, 0)
                /\ MEM'[lam0 + 1] = ptr(DP0, let0, col, 0)
                /\ MEM'[lam1 + 1] = ptr(DP1, let0, col, 0)
                /\ MEM'[let0] = ptr(LNK, lam0 + 1, 0, 0)
                /\ MEM'[let0 + 1] = ptr(LNK, lam1 + 1, 0, 0)
                /\ MEM'[par0] = ptr(VAR, lam0, 0, 0)
                /\ MEM'[par0 + 1] = ptr(VAR, lam1, 0, 0)
                /\ IF get_pos(x) = get_loc(expr, 1)
                   THEN MEM'[let0 + 2] = ptr(PAR, par0, col, 0)
                   ELSE /\ MEM'[let0 + 2] = MEM[get_loc(expr, 1)]
                        /\ MEM'[get_pos(x)] = ptr(PAR, par0, col, 0)
                /\ Fresh(lam0, 2) /\ Fresh(lam1, 2) /\ Fresh(par0, 2) /\ Fresh(let0, 3)
                /\ Apart(<< <<lam0, 2>>, <<lam1, 2>>, <<par0, 2>>, <<let0, 3>>,
                            <<get_loc(term, 0), 3>>, <<get_loc(expr, 0), 2>> >>)]_vars

(* LET-LAM has fired on S3 through the first projection: the host holds    *)
(* an abstraction whose body is a Dp0                                      *)
C23_Witness ==
  /\ rule = "let-lam" /\ code = "S3" /\ GAS = 1 /\ stack # << >>
  /\ get_tag(MEM[Top.host]) = LAM /\ get_tag(MEM[get_loc(MEM[Top.host], 1)]) = DP0

----------------------------------------------------------------------------
(* the cells of the projection's duplicator and of the pair it meets *)
LetParCells(term, expr) ==
  (get_loc(term, 0) .. get_loc(term, 2)) \cup (get_loc(expr, 0) .. get_loc(expr, 1))

(* C24.  LET-PAR at host, on a projection of Dup_A(r, s, Par_B(a, b)) with *)
(* equal colors (the ex0 fields are what is compared): the occurrence of r *)
(* holds a and that of s holds b, MEM[host] holds a when the projection    *)
(* was a Dp0 and b when it was a Dp1, the three cells of the duplicator    *)
(* and the two of the pair are freed, and no cell was allocated.           *)
C24_LetParAnnihilate ==
  [][(rule' = "let-par" /\ get_ex0(Top.term) = get_ex0(ret.val)) =>
       LET term == Top.term
           expr == ret.val
           r == MEM[get_loc(term, 0)]
           s == MEM[get_loc(term, 1)]
           a == MEM[get_loc(expr, 0)]
           b == MEM[get_loc(expr, 1)]
       IN  /\ get_tag(term) \in {DP0, DP1} /\ get_tag(expr) = PAR
           /\ (get_tag(r) = LNK /\ get_pos(r) \notin LetParCells(term, expr)) => MEM'[get_pos(r)] = a
           /\ (get_tag(s) = LNK /\ get_pos(s) \notin LetParCells(term, expr)) => MEM'[get_pos(s)] = b
           /\ MEM'[Top.host] = IF get_tag(term) = DP0 THEN a ELSE b
           /\ Freed(get_loc(term, 0), 3) /\ Freed(get_loc(expr, 0), 2)
           /\ NothingAllocated
           /\ stack' # << >> /\ Len(stack') = Len(stack)]_vars

(* the rule has fired on S3, where the duplicator of color 0 meets the     *)
(* pair of color 0 that LET-LAM made: the host holds the abstraction that  *)
(* was the pair's first component                                          *)
C24_Witness ==
  /\ rule = "let-par" /\ code = "S3" /\ stack # << >> /\ Top.pc = "top"
  /\ get_tag(MEM[Top.host]) = LAM /\ GAS = 3 /\ RE3 # << >>

----------------------------------------------------------------------------
(* C25.  LET-PAR at host, on a projection of Dup_A(r, s, Par_B(a, b)) with *)
(* different colors and r and s in use: the occurrence of r holds Par_B on *)
(* a fresh node par0 and that of s holds Par_B on a fresh node par1;       *)
(* par0 holds Dp0(let0), Dp0(let1) and par1 holds Dp1(let0), Dp1(let1),    *)
(* all of color A, let0 and let1 being fresh duplicator nodes over a and   *)
(* over b; MEM[host] holds the pair of the entry projection and the call   *)
(* returns it; the old duplicator and the old pair are freed.              *)
C25_LetParCommute ==
  [][(rule' = "let-par" /\ get_ex0(Top.term) # get_ex0(ret.val)) =>
       LET term == Top.term
           expr == ret.val
           r == MEM[get_loc(term, 0)]
           s == MEM[get_loc(term, 1)]
           let0 == get_pos(MEM'[get_loc(MEM'[Top.host], 0)])
           let1 == get_pos(MEM'[get_loc(MEM'[Top.host], 1)])
           par0 == get_pos(MEM'[let0])
           par1 == get_pos(MEM'[let0 + 1])
           A == get_ex0(term)
           B == get_ex0(expr)
       IN  /\ get_tag(term) \in {DP0, DP1} /\ get_tag(expr) = PAR
           /\ Freed(get_loc(term, 0), 3) /\ Freed(get_loc(expr, 0), 2)
           /\ ret'.val = MEM'[Top.host] /\ Len(stack') = Len(stack) - 1
           /\ (get_tag(r) = LNK /\ get_tag(s) = LNK) =>
                /\ MEM'[Top.host] = ptr(PAR, IF get_tag(term) = DP0 THEN par0 ELSE par1, B, 0)
                /\ MEM'[get_pos(r)] = ptr(PAR, par0, B, 0)
                /\ MEM'[get_pos(s)] = ptr(PAR, par1, B, 0)
                /\ MEM'[par0] = ptr(DP0, let0, A, 0)
                /\ MEM'[par0 + 1] = ptr(DP0, let1, A, 0)
                /\ MEM'[par1] = ptr(DP1, let0, A, 0)
                /\ MEM'[par1 + 1] = ptr(DP1, let1, A, 0)
                /\ MEM'[let0] = ptr(LNK, par0, 0, 0)
                /\ MEM'[let0 + 1] = ptr(LNK, par1, 0, 0)
                /\ MEM'[let1] = ptr(LNK, par0 + 1, 0, 0)
                /\ MEM'[let1 + 1] = ptr(LNK, par1 + 1, 0, 0)
                /\ MEM'[let0 + 2] = MEM[get_loc(expr, 0)]
                /\ MEM'[let1 + 2] = MEM[get_loc(expr, 1)]
                /\ Fresh(par0, 2) /\ Fresh(par1, 2) /\ Fresh(let0, 3) /\ Fresh(let1, 3)
                /\ Apart(<< <<par0, 2>>, <<par1, 2>>, <<let0, 3>>, <<let1, 3>>,
                            <<get_loc(term, 0), 3>>, <<get_loc(expr, 0), 2>> >>)]_vars

(* the rule has fired on Comm, where the duplicator of color 0 meets a     *)
(* pair of color 1: the call has returned a pair of color 1 over           *)
(* projections of color 0                                                  *)
C25_Witness ==
  /\ rule = "let-par" /\ code = "Comm" /\ GAS = 1
  /\ get_tag(ret.val) = PAR /\ get_ex0(ret.val) = 1
  /\ get_tag(MEM[get_loc(ret.val, 1)]) \in {DP0, DP1} /\ get_ex0(MEM[get_loc(ret.val, 1)]) = 0

----------------------------------------------------------------------------
(* C26.  LET-CTR at host, on a projection of Dup_A(r, s, Ctr_{id,k}(a_1 .. *)
(* a_k)) with r and s in use: the occurrence of r holds Ctr_{id,k} on a    *)
(* fresh block ctr0 of k cells and that of s holds Ctr_{id,k} on a fresh   *)
(* block ctr1; for each field i there is a fresh duplicator node over a_i  *)
(* whose Dp0 is in slot i of ctr0 and whose Dp1 is in slot i of ctr1;      *)
(* MEM[host] holds the constructor of the entry projection and the call    *)
(* returns it; the three cells of the old duplicator and the k cells of    *)
(* the old constructor are freed.                                          *)
C26_LetCtrStructure ==
  [][rule' = "let-ctr" =>
       LET term == Top.term
           expr == ret.val
           r == MEM[get_loc(term, 0)]
           s == MEM[get_loc(term, 1)]
           arit == get_ex0(expr)
           func == get_ex1(expr)
           ctr0 == get_pos(MEM'[get_pos(r)])
           ctr1 == get_pos(MEM'[get_pos(s)])
           leti == [i \in 0 .. (arit - 1) |-> get_pos(MEM'[ctr0 + i])]
       IN  /\ get_tag(term) \in {DP0, DP1} /\ get_tag(expr) = CTR
           /\ Freed(get_loc(term, 0), 3) /\ Freed(get_loc(expr, 0), arit)
           /\ ret'.val = MEM'[Top.host] /\ Len(stack') = Len(stack) - 1
           /\ (get_tag(r) = LNK /\ get_tag(s) = LNK) =>
                /\ MEM'[Top.host] = ptr(CTR, IF get_tag(term) = DP0 THEN ctr0 ELSE ctr1, arit, func)
                /\ MEM'[get_pos(r)] = ptr(CTR, ctr0, arit, func)
                /\ MEM'[get_pos(s)] = ptr(CTR, ctr1, arit, func)
                /\ \A i \in 0 .. (arit - 1) :
                     /\ get_tag(MEM'[ctr0 + i]) = DP0
                     /\ get_tag(MEM'[ctr1 + i]) = DP1 /\ get_pos(MEM'[ctr1 + i]) = leti[i]
                     /\ MEM'[leti[i]] = ptr(LNK, ctr0 + i, 0, 0)
                     /\ MEM'[leti[i] + 1] = ptr(LNK, ctr1 + i, 0, 0)
                     /\ MEM'[leti[i] + 2] = MEM[get_loc(expr, i)]
                     /\ Fresh(leti[i], 3)
                /\ Fresh(ctr0, arit) /\ Fresh(ctr1, arit)
                /\ Apart(<< <<ctr0, arit>>, <<ctr1, arit>>,
                            <<get_loc(term, 0), 3>>, <<get_loc(expr, 0), arit>> >>
                         \o [i \in 1 .. arit |-> <<leti[i - 1], 3>>])]_vars

----------------------------------------------------------------------------
(* C27.  LET-CTR on a projection of a duplicator of color A: the Dp0 or    *)
(* Dp1 in every field of the constructor linked at host carries the color  *)
(* A.                                                                      *)
C27_LetCtrColor ==
  [][rule' = "let-ctr" =>
       \A i \in 0 .. (get_ex0(ret.val) - 1) :
         /\ get_tag(MEM'[get_loc(MEM'[Top.host], i)]) \in {DP0, DP1}
         /\ get_ex0(MEM'[get_loc(MEM'[Top.host], i)]) = get_ex0(Top.term)]_vars

----------------------------------------------------------------------------
(* C28.  After APP-LAM, LET-LAM and LET-PAR with equal colors the          *)
(* activation of reduce stays on the stack and is back at the top of its   *)
(* loop, on the same host; after APP-PAR, LET-PAR with different colors    *)
(* and LET-CTR the activation is gone and has returned MEM[host].          *)
C28_ContinueOrReturn ==
  [][rule' \in Rules =>
       IF \/ rule' \in {"app-lam", "let-lam"}
          \/ rule' = "let-par" /\ get_ex0(Top.term) = get_ex0(ret.val)
       THEN /\ Len(stack') = Len(stack)
            /\ stack'[Len(stack')].fn = "reduce" /\ stack'[Len(stack')].pc = "top"
            /\ stack'[Len(stack')].host = Top.host
            /\ ret' = NoRet
       ELSE /\ stack' = SubSeq(stack, 1, Len(stack) - 1)
            /\ ret' = [fn |-> "reduce", host |-> Top.host, val |-> MEM'[Top.host]]]_vars

(* on S3 the activation reduce(0) that fired APP-LAM at the root has gone  *)
(* round its loop and fired LET-PAR at the root as well                    *)
C28_Witness ==
  /\ rule = "let-par" /\ code = "S3" /\ GAS = 3
  /\ stack # << >> /\ Top.fn = "reduce" /\ Top.pc = "top" /\ Top.host = 0 /\ Top.gas = 0

----------------------------------------------------------------------------
(* the head at slot c is stuck: it is no App, Dp0 or Dp1; or it is an App  *)
(* whose function slot is stuck on something other than a Lam or a Par;    *)
(* or a Dp0 or Dp1 whose expression slot is stuck on something other than *)
(* a Lam, a Par or a Ctr.  n bounds the depth of the descent.              *)
RECURSIVE StuckHead(_, _, _)
StuckHead(m, c, n) ==
  CASE get_tag(m[c]) = APP ->
         /\ n > 0
         /\ get_tag(m[get_loc(m[c], 0)]) \notin {LAM, PAR}
         /\ StuckHead(m, get_loc(m[c], 0), n - 1)
    [] get_tag(m[c]) \in {DP0, DP1} ->
         /\ n > 0
         /\ get_tag(m[get_loc(m[c], 2)]) \notin {LAM, PAR, CTR}
         /\ StuckHead(m, get_loc(m[c], 2), n - 1)
    [] OTHER -> TRUE

(* C29.  While reduce runs on a host whose head is stuck, no step changes  *)
(* a heap cell, a free list or GAS, the calls it makes are on stuck heads  *)
(* again, and when it returns it returns MEM[host].                        *)
C29_StuckNoOp ==
  [][(stack # << >> /\ Top.fn = "reduce" /\ StuckHead(MEM, Top.host, MemLen(MEM))) =>
       /\ MEM' = MEM /\ <<RE0', RE1', RE2', RE3'>> = <<RE0, RE1, RE2, RE3>> /\ GAS' = GAS
       /\ rule' = "none"
       /\ Len(stack') > Len(stack) =>
            /\ stack'[Len(stack')].fn = "reduce"
            /\ StuckHead(MEM, stack'[Len(stack')].host, MemLen(MEM))
       /\ Len(stack') < Len(stack) =>
            ret' = [fn |-> "reduce", host |-> Top.host, val |-> MEM[Top.host]]]_vars

(* reduce has returned a projection whose expression is a call: LET-CTR    *)
(* on Ctr left the projection over @2:1{..} in a field of the copy         *)
C29_Witness ==
  /\ code = "Ctr" /\ rule = "none" /\ ret.fn = "reduce" /\ GAS = 1
  /\ get_tag(ret.val) \in {DP0, DP1} /\ MEM[ret.host] = ret.val
  /\ get_tag(MEM[get_loc(ret.val, 2)]) = CAL

----------------------------------------------------------------------------
(* The cells one rule step may write, from the two pointers that interact  *)
(* (term, fetched at host, and head, returned by the inner call).          *)

(* the cells of the node a pointer names *)
NodeCells(p) ==
  CASE get_tag(p) \in {LAM, APP, PAR} -> get_loc(p, 0) .. get_loc(p, 1)
    [] get_tag(p) \in {DP0, DP1} -> get_loc(p, 0) .. get_loc(p, 2)
    [] get_tag(p) \in {CTR, CAL} -> get_loc(p, 0) .. (get_loc(p, 0) + get_ex0(p) - 1)
    [] OTHER -> {}

(* the binder slots of the node a pointer names *)
BinderSlots(p) ==
  CASE get_tag(p) = LAM -> {get_loc(p, 0)}
    [] get_tag(p) \in {DP0, DP1} -> {get_loc(p, 0), get_loc(p, 1)}
    [] OTHER -> {}

(* the cells alloc handed out during the step: those past the old end of   *)
(* the heap and those of the blocks that left a free list                  *)
AllocCells ==
  (DOMAIN MEM' \ DOMAIN MEM)
  \cup UNION {UNION {Bucket(Heap, n)[j] .. (Bucket(Heap, n)[j] + n - 1) :
                       j \in {i \in DOMAIN Bucket(Heap, n) :
                                ~(i <= Len(Bucket(Heap', n)) /\ Bucket(Heap', n)[i] = Bucket(Heap, n)[i])}} :
              n \in 1 .. 3}

(* the cells a rule on term and head may write *)
RuleCells(host, term, head) ==
  {host} \cup NodeCells(term) \cup NodeCells(head) \cup AllocCells
  \cup {get_pos(MEM[b]) : b \in BinderSlots(term) \cup BinderSlots(head)}
  \cup {BinderSlot(MEM[c]) : c \in {d \in NodeCells(term) \cup NodeCells(head) :
                                      get_tag(MEM[d]) \in {VAR, DP0, DP1}}}

(* C30.  A rule step on two nodes whose binder slots are all in use writes *)
(* only the host slot, the cells of the two nodes, cells that alloc handed *)
(* out during the step, the occurrence cells named by the Lnk in the       *)
(* binder slots of the two nodes, and the binder slots of the Var, Dp0 and *)
(* Dp1 pointers that the two nodes held; every other cell of the heap is   *)
(* as before.                                                              *)
C30_RuleLocality ==
  [][(/\ rule' \in Rules
      /\ \A b \in BinderSlots(Top.term) \cup BinderSlots(ret.val) : get_tag(MEM[b]) = LNK) =>
       \A k \in DOMAIN MEM \ RuleCells(Top.host, Top.term, ret.val) : MEM'[k] = MEM[k]]_vars

(* LET-LAM has fired on Seen, whose heap holds cells that are none of the  *)
(* rule's: the constructor at the root and its two fields                  *)
C30_Witness ==
  /\ rule = "let-lam" /\ code = "Seen" /\ GAS = 1
  /\ get_tag(MEM[0]) = CTR /\ get_ex0(MEM[0]) = 2

----------------------------------------------------------------------------
(* the cells of the nodes collect walks from the pointer t: the node of a  *)
(* Lam and what its body leads to, the node of an App, of a Par, of a Ctr  *)
(* or Cal and what their slots lead to; a Var, Dp0 or Dp1 leads nowhere    *)
RECURSIVE CollectCells(_, _)
CollectCells(m, t) ==
  CASE get_tag(t) = LAM -> NodeCells(t) \cup CollectCells(m, m[get_loc(t, 1)])
    [] get_tag(t) \in {APP, PAR, CTR, CAL} ->
         NodeCells(t) \cup UNION {CollectCells(m, m[k]) : k \in NodeCells(t)}
    [] OTHER -> {}

(* the pointers collect meets: t and the contents of the cells it walks *)
CollectMet(m, t) == {t} \cup {m[k] : k \in CollectCells(m, t)}

(* the occurrence cells of the used binders of the abstractions collect    *)
(* meets                                                                   *)
CollectUnbound(m, t) ==
  {get_pos(m[get_loc(p, 0)]) :
     p \in {q \in CollectMet(m, t) : get_tag(q) = LAM /\ get_tag(m[get_loc(q, 0)]) = LNK}}

(* C31.  collect(term, host) on a graph as read: every cell of a node it   *)
(* walks is freed and holds 0, a Par being walked like an App (both        *)
(* components are collected and its two cells freed) before the host slot  *)
(* is set to Nil; the binder slot of every Var, Dp0 and Dp1 it meets and   *)
(* the occurrence cell of every abstraction it meets hold Nil; and of a    *)
(* duplicator whose projection it meets it writes that back slot only:     *)
(* the expression slot (unless it was such an occurrence cell) and, unless *)
(* the other projection is met too, the other back slot are as before,     *)
(* and the node is in no free list.                                        *)
C31_Collect ==
  prim.op = "collect" =>
    /\ \A k \in CollectCells(prim.before.MEM, prim.a) : MEM[k] = 0 /\ k \in dead
    /\ \A p \in CollectMet(prim.before.MEM, prim.a) :
         get_tag(p) \in {VAR, DP0, DP1} => MEM[BinderSlot(p)] = ptr(NIL, 0, 0, 0)
    /\ \A p \in CollectMet(prim.before.MEM, prim.a) :
         get_tag(p) \in {DP0, DP1} =>
           /\ get_loc(p, 2) \notin CollectUnbound(prim.before.MEM, prim.a) =>
                MEM[get_loc(p, 2)] = prim.before.MEM[get_loc(p, 2)]
           /\ \A j \in DOMAIN RE3 : RE3[j] # get_pos(p)
           /\ \A i \in {0, 1} :
                (\A q \in CollectMet(prim.before.MEM, prim.a) :
                   ~(get_tag(q) \in {DP0, DP1} /\ BinderSlot(q) = get_loc(p, i))) =>
                  MEM[get_loc(p, i)] = prim.before.MEM[get_loc(p, i)]
    /\ \A v \in CollectUnbound(prim.before.MEM, prim.a) : MEM[v] = ptr(NIL, 0, 0, 0)
    /\ (get_tag(prim.a) = PAR /\ prim.b # null) => MEM[prim.b] = ptr(NIL, 0, 0, 0)

(* the statement with a collector that stops at a Par: the host slot is    *)
(* set to Nil and the cells of the Par and of what its components lead to  *)
(* are as before                                                           *)
C31_CollectStopsAtPar ==
  (prim.op = "collect" /\ get_tag(prim.a) = PAR /\ prim.b # null) =>
    /\ MEM[prim.b] = ptr(NIL, 0, 0, 0)
    /\ \A k \in CollectCells(prim.before.MEM, prim.a) : MEM[k] = prim.before.MEM[k]
    /\ RE2 = prim.before.RE2

(* the pair of S4 has been collected from the function slot of the         *)
(* application: its node and the nodes of its two abstractions are in the  *)
(* list of size 2                                                          *)
C31_Witness ==
  /\ prim.op = "collect" /\ code = "S4" /\ get_tag(prim.a) = PAR /\ prim.b # null
  /\ Len(RE2) = 3 /\ MEM[prim.b] = 0

----------------------------------------------------------------------------
(* C32.  Coverage of one pass of normal: when normal(0) returns, every     *)
(* slot reachable from the root whose head is a node has had reduce        *)
(* applied to it by go in this pass, unless go applied reduce to another   *)
(* slot that names the same node.                                          *)
NodeKey(p) ==
  CASE get_tag(p) \in {DP0, DP1} -> <<DP0, get_pos(p)>>
    [] OTHER -> <<get_tag(p), get_pos(p)>>

Unvisited(m, vis) ==
  {c \in Reach(m, 0) :
     /\ get_tag(m[c]) \in {LAM, APP, PAR, DP0, DP1, CTR, CAL}
     /\ c \notin vis
     /\ \A d \in vis : NodeKey(m[d]) # NodeKey(m[c])}

C32_NormalCoverage == PassDone => Unvisited(MEM, visited) = {}

----------------------------------------------------------------------------
(* C33.  Termination: every call of normal(0) returns, under a finite gas  *)
(* limit and without one.                                                  *)
C33_NormalTerminates == (drv.phase = "pass") ~> (drv.phase = "between")

----------------------------------------------------------------------------
(* C34.  Gas is bounded by the limit: under a finite limit GAS <= LIM in   *)
(* every state of a run that began with GAS <= LIM, and a rewrite rule     *)
(* fires only from a state where GAS < LIM.                                *)
C34_GasBounded ==
  /\ [](LIM # Infinity => GAS <= LIM)
  /\ [][rule' \in Rules => (LIM = Infinity \/ GAS < LIM)]_vars
  /\ [][LIM' = LIM]_vars

(* a rule has just fired and has brought GAS to the limit *)
C34_Witness == rule \in Rules /\ LIM = MaxLim /\ GAS = LIM

----------------------------------------------------------------------------
(* sanity_check (part_001:645-676).  Its outcome is the error thrown at    *)
(* the first cell that fails a test, or none.  A read past the end of MEM  *)
(* is undefined in the source: its position is NaN, which differs from     *)
(* every index, and it is not === 0.                                       *)

(* the slot tested for a Dp1 taken at offset 0, as for a Dp0 *)
sanity_slot_first(p) == get_loc(p, 0)

(* get_loc(MEM[i],0) for VAR and DP0, get_loc(MEM[i],1) for DP1 *)
sanity_slot(p) == IF get_tag(p) = DP1 THEN get_loc(p, 1) ELSE get_loc(p, 0)

(* get_loc(MEM[slot],0) !== i *)
sanity_bad(m, i, slot) == slot \notin DOMAIN m \/ get_loc(m[slot], 0) # i

(* the switch on get_tag(MEM[i]) *)
sanity_error(m, i) ==
  CASE get_tag(m[i]) = VAR /\ sanity_bad(m, i, sanity_slot(m[i])) -> "Bad var"
    [] get_tag(m[i]) = DP0 /\ sanity_bad(m, i, sanity_slot(m[i])) -> "Bad dp0"
    [] get_tag(m[i]) = DP1 /\ sanity_bad(m, i, sanity_slot(m[i])) -> "Bad dp1"
    [] get_tag(m[i]) = LAM /\ get_loc(m[i], 1) \in DOMAIN m /\ m[get_loc(m[i], 1)] = 0 ->
         "Lambda pointing to nil body"
    [] OTHER -> "none"

(* the loop over MEM: the first throw ends it *)
RECURSIVE sanity_loop(_, _)
sanity_loop(m, i) ==
  IF i \notin DOMAIN m THEN [raised |-> FALSE, at |-> 0, msg |-> "none"]
  ELSE IF sanity_error(m, i) # "none" THEN [raised |-> TRUE, at |-> i, msg |-> sanity_error(m, i)]
  ELSE sanity_loop(m, i + 1)

sanity_check(m) == sanity_loop(m, 0)

(* Specification: sanity_check called on the heap the primitives have left *)
prim_sanity ==
  /\ prim.op # "sanity_check"
  /\ prim' = [prim EXCEPT !.op = "sanity_check", !.out = sanity_check(MEM), !.before = Heap]
  /\ SameHeap
  /\ UNCHANGED <<GAS, LIM, code, stack, ret, seen, visited, rule, drv, ref>>

NextSanity == NextPrim \/ prim_sanity

SpecSanity == InitPrim /\ [][NextSanity]_vars

(* the cells sanity_check rejects: a Var, Dp0 or Dp1 whose binder slot     *)
(* does not hold a pointer with the position of the cell, whatever its     *)
(* tag, and a Lam whose body slot holds 0                                  *)
PosBroken(m) ==
  {i \in DOMAIN m : /\ get_tag(m[i]) \in {VAR, DP0, DP1}
                    /\ (BinderSlot(m[i]) \in DOMAIN m => get_pos(m[BinderSlot(m[i])]) # i)}

NilBodies(m) ==
  {i \in DOMAIN m : /\ get_tag(m[i]) = LAM
                    /\ get_loc(m[i], 1) \in DOMAIN m
                    /\ m[get_loc(m[i], 1)] = ptr(NIL, 0, 0, 0)}

(* C35.  sanity_check raises exactly when some cell holds a Var, Dp0 or    *)
(* Dp1 whose binder slot does not hold a pointer positioned at that cell,  *)
(* or a Lam whose body slot holds 0; the error names the first such cell;  *)
(* a "Bad" error is raised only on a heap without back-edge integrity.     *)
C35_SanityCheck ==
  prim.op = "sanity_check" =>
    /\ prim.out.raised <=> (PosBroken(MEM) \cup NilBodies(MEM)) # {}
    /\ prim.out.raised =>
         /\ prim.out.at \in PosBroken(MEM) \cup NilBodies(MEM)
         /\ \A i \in PosBroken(MEM) \cup NilBodies(MEM) : prim.out.at <= i
         /\ (prim.out.msg # "Lambda pointing to nil body") = (prim.out.at \in PosBroken(MEM))
         /\ prim.out.at \in PosBroken(MEM) => ~BackEdgeAt(MEM, prim.out.at)

(* C35 as stated: sanity_check raises exactly when back-edge integrity     *)
(* fails.                                                                  *)
C35_SanityExactlyBackEdge ==
  prim.op = "sanity_check" => (prim.out.raised <=> ~BackEdgeOK(MEM))

(* a Bad dp1 error has been raised after two calls of the primitives *)
C35_Witness ==
  prim.op = "sanity_check" /\ prim.n = MaxPrim /\ prim.out.raised /\ prim.out.msg = "Bad dp1"

----------------------------------------------------------------------------
(* C36.  When a call of reduce(host) or of go(host), the body of normal,   *)
(* returns, the pointer it returns is the content of MEM[host].            *)
C36_ReturnIsHostContent ==
  ret.fn \in {"reduce", "go"} => ret.val = MEM[ret.host]

----------------------------------------------------------------------------
(* the entries of the free lists as blocks <<pos, size>>; an entry of the  *)
(* list of size 0 covers no cell                                           *)
FreeBlocks(h) ==
  [j \in DOMAIN h.RE1 |-> <<h.RE1[j], 1>>]
  \o [j \in DOMAIN h.RE2 |-> <<h.RE2[j], 2>>]
  \o [j \in DOMAIN h.RE3 |-> <<h.RE3[j], 3>>]

(* C37.  Allocation disjointness: no cell is covered by two entries of the *)
(* free lists, and alloc hands out no cell of a block that it handed out   *)
(* before and that was not freed since: the cells it takes from a free     *)
(* list are cells freed and not handed out again.                          *)
C37_AllocationDisjoint ==
  /\ []Apart(FreeBlocks(Heap))
  /\ [][(AllocCells \cap DOMAIN MEM) \subseteq dead]_vars

----------------------------------------------------------------------------
(* The 2021 revision (2021_wip/optimal_calculus.ts).  A pointer is         *)
(* tag + col * 2^4 + dest * 2^12; alloc always extends MEM and free only   *)
(* clears the cells (the free lists are commented out); subst does nothing *)
(* for an unused binder (collect is commented out); reduce takes the slot  *)
(* host next to the pointer and has no gas limit.  A heap of the revision  *)
(* is a record of MEM, GAS and the history set dead of the cells passed to *)
(* free.  Its definitions carry the prefix wip_.                           *)

wip_ptr(tag, dest, col) == tag + (col * MUL_A) + (dest * MUL_B)

wip_get_col(p) == (p \div MUL_A) % 256

wip_get_dest(p) == p \div MUL_B

(* SET(dest, term) *)
wip_SET(h, dest, term) ==
  [h EXCEPT !.MEM =
     CASE get_tag(term) \in {VAR, DP0} ->
            [[h.MEM EXCEPT ![dest] = term] EXCEPT ![wip_get_dest(term) + 0] = wip_ptr(LNK, dest, 0)]
       [] get_tag(term) = DP1 ->
            [[h.MEM EXCEPT ![dest] = term] EXCEPT ![wip_get_dest(term) + 1] = wip_ptr(LNK, dest, 0)]
       [] OTHER -> [h.MEM EXCEPT ![dest] = term]]

wip_ARG(h, term, idx) == h.MEM[wip_get_dest(term) + idx]

(* alloc(size): the heap and the position handed out *)
wip_alloc(h, size) ==
  [h |-> [h EXCEPT !.MEM = push_zeros(h.MEM, MemLen(h.MEM), size)], pos |-> MemLen(h.MEM)]

(* free(dest, size) *)
wip_free(h, dest, size) ==
  [h EXCEPT !.MEM = [k \in DOMAIN h.MEM |-> IF k >= dest /\ k < dest + size THEN 0 ELSE h.MEM[k]],
            !.dead = @ \cup (dest .. (dest + size - 1))]

(* subst(lnk, val, val_host) *)
wip_subst(h, lnk, val) == IF get_tag(lnk) # NIL THEN wip_SET(h, wip_get_dest(lnk), val) ELSE h

(* a statement of a rule body, its operands read when it runs *)
wip_Operand(h, o) == IF o.arg THEN wip_ARG(h, o.term, o.idx) ELSE o.term

wip_Statement(h, st) ==
  CASE st.op = "link" -> wip_SET(h, st.pos, wip_Operand(h, st.a))
    [] st.op = "subst" ->
         CHOOSE r \in {wip_subst(h, a[1], a[2]) :
                         a \in {<<wip_Operand(h, st.a), wip_Operand(h, st.b)>>}} : TRUE
    [] st.op = "free" -> wip_free(h, st.pos, st.size)
    [] st.op = "gas" -> [h EXCEPT !.GAS = @ + 1]

RECURSIVE wip_Run(_, _, _)
wip_Run(h, sts, i) ==
  IF i <= Len(sts)
  THEN CHOOSE r \in {wip_Run(x, sts, i + 1) : x \in {wip_Statement(h, st) : st \in {sts[i]}}} : TRUE
  ELSE h

RECURSIVE wip_Allocs(_, _, _)
wip_Allocs(a, sizes, i) ==
  IF i <= Len(sizes)
  THEN CHOOSE r \in {wip_Allocs(x, sizes, i + 1) :
                       x \in {alloc_next(wip_alloc(a.h, sizes[i]), a.pos)}} : TRUE
  ELSE a

(* ++GAS *)
IncGas == [op |-> "gas", pos |-> 0, size |-> 0, a |-> Imm(0), b |-> Imm(0)]

(* the pointer done of the rules that copy: the projection the duplicator  *)
(* was entered through                                                     *)
wip_side(term, p0, p1) == IF get_tag(term) = DP0 THEN p0 ELSE p1

(* APP-LAM up to free: done = ARG(func, 1) is read after the subst *)
wip_app_lam_subst(h, term, func) ==
  wip_Run(h, << IncGas, Subst(ArgOf(func, 0), ArgOf(term, 1)) >>, 1)

wip_app_lam_end(h, host, term, func, done) ==
  [h |-> wip_Run(h, << Free(wip_get_dest(term), 2),
                       Free(wip_get_dest(func), 2),
                       Link(host, Imm(done)) >>, 1),
   term |-> done]

(* APP-PAR: SET(host, done) is commented out in the source *)
wip_app_par_body(h, let0, app0, app1, par0, host, term, func) ==
  [h |-> wip_Run(h, << IncGas,
                       Link(let0 + 2, ArgOf(term, 1)),
                       Link(app0 + 0, ArgOf(func, 0)),
                       Link(app0 + 1, Imm(wip_ptr(DP0, let0, wip_get_col(func)))),
                       Link(app1 + 0, ArgOf(func, 1)),
                       Link(app1 + 1, Imm(wip_ptr(DP1, let0, wip_get_col(func)))),
                       Link(par0 + 0, Imm(wip_ptr(APP, app0, 0))),
                       Link(par0 + 1, Imm(wip_ptr(APP, app1, 0))),
                       Free(wip_get_dest(term), 2),
                       Free(wip_get_dest(func), 2) >>, 1),
   term |-> wip_ptr(PAR, par0, wip_get_col(func))]

wip_app_par(h, host, term, func) ==
  CHOOSE r \in {wip_app_par_body(a.h, a.pos[1], a.pos[2], a.pos[3], a.pos[4], host, term, func) :
                  a \in {wip_Allocs([h |-> h, pos |-> << >>], <<3, 2, 2, 2>>, 1)}} : TRUE

(* LET-LAM *)
wip_let_lam_body(h, lam0, lam1, par0, let0, host, term, expr) ==
  [h |-> wip_Run(h, << IncGas,
                       Subst(ArgOf(term, 0), Imm(wip_ptr(LAM, lam0, 0))),
                       Subst(ArgOf(term, 1), Imm(wip_ptr(LAM, lam1, 0))),
                       Subst(ArgOf(expr, 0), Imm(wip_ptr(PAR, par0, wip_get_col(term)))),
                       Link(lam0 + 1, Imm(wip_ptr(DP0, let0, wip_get_col(term)))),
                       Link(lam1 + 1, Imm(wip_ptr(DP1, let0, wip_get_col(term)))),
                       Link(par0 + 0, Imm(wip_ptr(VAR, lam0, 0))),
                       Link(par0 + 1, Imm(wip_ptr(VAR, lam1, 0))),
                       Link(let0 + 2, ArgOf(expr, 1)),
                       Free(wip_get_dest(term), 3),
                       Free(wip_get_dest(expr), 2),
                       Link(host, Imm(wip_ptr(LAM, wip_side(term, lam0, lam1), 0))) >>, 1),
   term |-> wip_ptr(LAM, wip_side(term, lam0, lam1), 0)]

wip_let_lam(h, host, term, expr) ==
  CHOOSE r \in {wip_let_lam_body(a.h, a.pos[1], a.pos[2], a.pos[3], a.pos[4], host, term, expr) :
                  a \in {wip_Allocs([h |-> h, pos |-> << >>], <<2, 2, 2, 3>>, 1)}} : TRUE

(* LET-PAR, equal colors, up to free: done is read after the two substs *)
wip_let_par_eq_subst(h, term, expr) ==
  wip_Run(h, << IncGas,
                Subst(ArgOf(term, 0), ArgOf(expr, 0)),
                Subst(ArgOf(term, 1), ArgOf(expr, 1)) >>, 1)

wip_let_par_eq_end(h, host, term, expr, done) ==
  [h |-> wip_Run(h, << Free(wip_get_dest(term), 3),
                       Free(wip_get_dest(expr), 2),
                       Link(host, Imm(done)) >>, 1),
   term |-> done]

(* LET-PAR, different colors *)
wip_let_par_ne_body(h, par0, par1, let0, let1, host, term, expr) ==
  [h |-> wip_Run(h, << IncGas,
                       Subst(ArgOf(term, 0), Imm(wip_ptr(PAR, par0, wip_get_col(expr)))),
                       Subst(ArgOf(term, 1), Imm(wip_ptr(PAR, par1, wip_get_col(expr)))),
                       Link(par0 + 0, Imm(wip_ptr(DP0, let0, wip_get_col(term)))),
                       Link(par0 + 1, Imm(wip_ptr(DP0, let1, wip_get_col(term)))),
                       Link(par1 + 0, Imm(wip_ptr(DP1, let0, wip_get_col(term)))),
                       Link(par1 + 1, Imm(wip_ptr(DP1, let1, wip_get_col(term)))),
                       Link(let0 + 2, ArgOf(expr, 0)),
                       Link(let1 + 2, ArgOf(expr, 1)),
                       Free(wip_get_dest(term), 3),
                       Free(wip_get_dest(expr), 2),
                       Link(host, Imm(wip_ptr(PAR, wip_side(term, par0, par1), wip_get_col(expr)))) >>, 1),
   term |-> wip_ptr(PAR, wip_side(term, par0, par1), wip_get_col(expr))]

wip_let_par_ne(h, host, term, expr) ==
  CHOOSE r \in {wip_let_par_ne_body(a.h, a.pos[1], a.pos[2], a.pos[3], a.pos[4], host, term, expr) :
                  a \in {wip_Allocs([h |-> h, pos |-> << >>], <<2, 2, 3, 3>>, 1)}} : TRUE

(* reduce(term, host, depth): the heap it leaves and the pointer it        *)
(* returns.  r is the result of the inner call on the function or the      *)
(* duplicated expression; the rules that continue call reduce(done, host). *)
RECURSIVE wip_reduce(_, _, _)

wip_continue(r) == wip_reduce(r.h, r.term, r.host)

wip_at(r, host) == [h |-> r.h, term |-> r.term, host |-> host]

wip_reduce_app(r, term, host) ==
  CASE get_tag(r.term) = LAM ->
         CHOOSE v \in {wip_continue(wip_at(wip_app_lam_end(s, host, term, r.term, wip_ARG(s, r.term, 1)), host)) :
                         s \in {wip_app_lam_subst(r.h, term, r.term)}} : TRUE
    [] get_tag(r.term) = PAR -> wip_app_par(r.h, host, term, r.term)
    [] OTHER -> [h |-> r.h, term |-> term]

wip_reduce_let(r, term, host) ==
  CASE get_tag(r.term) = LAM -> wip_continue(wip_at(wip_let_lam(r.h, host, term, r.term), host))
    [] get_tag(r.term) = PAR /\ wip_get_col(term) = wip_get_col(r.term) ->
         CHOOSE v \in {wip_continue(wip_at(wip_let_par_eq_end(s, host, term, r.term,
                                             wip_side(term, wip_ARG(s, r.term, 0), wip_ARG(s, r.term, 1))), host)) :
                         s \in {wip_let_par_eq_subst(r.h, term, r.term)}} : TRUE
    [] get_tag(r.term) = PAR /\ wip_get_col(term) # wip_get_col(r.term) ->
         wip_let_par_ne(r.h, host, term, r.term)
    [] OTHER -> [h |-> r.h, term |-> term]

wip_reduce(h, term, host) ==
  CASE get_tag(term) = APP ->
         CHOOSE v \in {wip_reduce_app(r, term, host) :
                         r \in {wip_reduce(h, wip_ARG(h, term, 0), wip_get_dest(term) + 0)}} : TRUE
    [] get_tag(term) \in {DP0, DP1} ->
         CHOOSE v \in {wip_reduce_let(r, term, host) :
                         r \in {wip_reduce(h, wip_ARG(h, term, 2), wip_get_dest(term) + 2)}} : TRUE
    [] OTHER -> [h |-> h, term |-> term]

(* the slots go descends into, by the tag of the reduced pointer *)
wip_kids(term) ==
  CASE get_tag(term) = LAM -> <<1>>
    [] get_tag(term) \in {APP, PAR} -> <<0, 1>>
    [] get_tag(term) \in {DP0, DP1} -> <<2>>
    [] OTHER -> << >>

(* normal(term, host): go threads the heap and the map seen, which is      *)
(* keyed by the whole pointer                                              *)
RECURSIVE wip_go(_, _, _)
RECURSIVE wip_go_kids(_, _, _, _)

wip_go_set(g, slot) == [h |-> wip_SET(g.h, slot, g.term), seen |-> g.seen]

wip_go_kids(s, term, idxs, i) ==
  IF i <= Len(idxs)
  THEN CHOOSE v \in {wip_go_kids(wip_go_set(g, wip_get_dest(term) + idxs[i]), term, idxs, i + 1) :
                       g \in {wip_go(s, s.h.MEM[wip_get_dest(term) + idxs[i]],
                                     wip_get_dest(term) + idxs[i])}} : TRUE
  ELSE [h |-> s.h, seen |-> s.seen, term |-> term]

wip_go(s, term, host) ==
  IF term \in s.seen
  THEN [h |-> s.h, seen |-> s.seen, term |-> term]
  ELSE CHOOSE v \in {wip_go_kids([h |-> r.h, seen |-> s.seen \cup {term}], r.term, wip_kids(r.term), 1) :
                       r \in {wip_reduce(s.h, term, host)}} : TRUE

wip_normal(h, term, host) == wip_go([h |-> h, seen |-> {}], term, host)

(* The heap the 2021 reader builds (optimal_calculus.ts:300-433).  It      *)
(* allocates the nodes in the order of the reader above and connects the   *)
(* variables at the end, so on a term that binds every name once the heap  *)
(* is the one of read with every pointer in the 2021 layout.               *)
wip_of(p) == wip_ptr(get_tag(p), get_pos(p), get_ex0(p))

wip_read(t) == [k \in DOMAIN read(t).MEM |-> wip_of(read(t).MEM[k])]

WipCodes == {"S1", "S3", "S4", "Confl", "Comm"}

WipHeap == [MEM |-> MEM, dead |-> dead, GAS |-> GAS]

(* calls the driver makes in one run *)
MaxWip == 3

InitWip ==
  \E c \in WipCodes :
      /\ code = c
      /\ MEM = wip_read(TermOf(c))
      /\ RE0 = << >>
      /\ RE1 = << >>
      /\ RE2 = << >>
      /\ RE3 = << >>
      /\ dead = {}
      /\ GAS = 0
      /\ LIM = Infinity
      /\ stack = << >>
      /\ ret = NoRet
      /\ seen = {}
      /\ visited = {}
      /\ rule = "none"
      /\ drv = StartDrv(MEM, << >>)
      /\ ref = NoRef
      /\ prim = NoPrim

(* a call made by the driver: prim keeps the function, its arguments and   *)
(* the pointer it returned                                                 *)
WipCall(op, term, host, r) ==
  /\ prim.n < MaxWip
  /\ MEM' = r.h.MEM
  /\ dead' = r.h.dead
  /\ GAS' = r.h.GAS
  /\ prim' = [n |-> prim.n + 1, op |-> op, a |-> term, b |-> host, out |-> r.term,
               before |-> Heap, prev |-> [op |-> prim.op, a |-> prim.a, b |-> prim.b]]
  /\ UNCHANGED <<RE0, RE1, RE2, RE3, LIM, code, stack, ret, seen, visited, rule, drv, ref>>

(* reduce(MEM[host], host, 0) on a slot that holds an application or a     *)
(* projection                                                              *)
wip_call_reduce ==
  \E host \in DOMAIN MEM :
    /\ get_tag(MEM[host]) \in {APP, DP0, DP1}
    /\ \E r \in {wip_reduce(WipHeap, MEM[host], host)} : WipCall("reduce", MEM[host], host, r)

(* normal(MEM[0], 0), the call of the test driver (optimal_calculus.ts:760) *)
wip_call_normal ==
  \E r \in {wip_normal(WipHeap, MEM[0], 0)} : WipCall("normal", MEM[0], 0, r)

NextWip == wip_call_reduce \/ wip_call_normal

SpecWip == InitWip /\ [][NextWip]_vars

(* the cells of the node a pointer names *)
WipCells(p) ==
  CASE get_tag(p) \in {LAM, APP, PAR} -> wip_get_dest(p) .. (wip_get_dest(p) + 1)
    [] get_tag(p) \in {DP0, DP1} -> wip_get_dest(p) .. (wip_get_dest(p) + 2)
    [] get_tag(p) = VAR -> {wip_get_dest(p)}
    [] OTHER -> {}

(* C38: in the 2021 revision, after normal(MEM[0], 0) has returned, the    *)
(* root slot MEM[0] holds the pointer normal returned, and the cells of    *)
(* the node it names have not been freed.                                  *)
C38_RootHoldsResult ==
  prim.op = "normal" => (MEM[0] = prim.out /\ WipCells(MEM[0]) \cap dead = {})

----------------------------------------------------------------------------
(* The tree-walking reference (part_000).  A term is a tree of the input    *)
(* terms above; the reference has no colors, and the model carries the one *)
(* color of the term along so that the result can be set against the       *)
(* graph.  env maps a name to the value its thunk returns (vals), keeps    *)
(* the names whose thunk returns a copy (cp), and counts the fresh names   *)
(* (size), the rewrites (rwts) and the copies (cpys).  Every function      *)
(* returns the record of its result t and the env it leaves.               *)

EmptyEnv == [vals |-> << >>, cp |-> {}, size |-> 0, rwts |-> 0, cpys |-> 0]

(* `x${n}` for the n the reference can reach on the terms of the model *)
FreshNames == <<"x1", "x2", "x3", "x4", "x5", "x6", "x7", "x8", "x9", "x10", "x11", "x12",
                "x13", "x14", "x15", "x16", "x17", "x18", "x19", "x20", "x21", "x22", "x23", "x24",
                "x25", "x26", "x27", "x28", "x29", "x30", "x31", "x32">>

(* fresh(env), k times: the names, in order, and the env *)
RECURSIVE ref_fresh(_, _, _)
ref_fresh(env, k, names) ==
  IF k = 0 THEN [env |-> env, names |-> names]
  ELSE ref_fresh([env EXCEPT !.size = @ + 1], k - 1, Append(names, FreshNames[env.size + 1]))

(* env[name] = () => value *)
ref_bind(env, name, value) ==
  [env EXCEPT !.vals = (name :> value) @@ @, !.cp = @ \ {name}]

ref_rewrite(env) == [env EXCEPT !.rwts = @ + 1]

(* copy(term, env): build_name gives every binder a fresh name, in the     *)
(* order of the walk, and rename rebuilds the term                         *)
RECURSIVE ref_build_name(_, _)
ref_name_one(s, old) ==
  CHOOSE r \in {[env |-> f.env, name |-> (old :> f.names[1]) @@ s.name] :
                  f \in {ref_fresh(s.env, 1, << >>)}} : TRUE

ref_build_name(t, s) ==
  CASE t[1] = "lam" -> ref_build_name(t[3], ref_name_one(s, t[2]))
    [] t[1] = "app" -> ref_build_name(t[3], ref_build_name(t[2], s))
    [] t[1] = "par" -> ref_build_name(t[4], ref_build_name(t[3], s))
    [] t[1] = "let" ->
         ref_build_name(t[6], ref_build_name(t[5], ref_name_one(ref_name_one(s, t[3]), t[4])))
    [] OTHER -> s

RECURSIVE ref_rename(_, _)
ref_rename(t, name) ==
  CASE t[1] = "lam" -> Lam(name[t[2]], ref_rename(t[3], name))
    [] t[1] = "app" -> App(ref_rename(t[2], name), ref_rename(t[3], name))
    [] t[1] = "par" -> Par(t[2], ref_rename(t[3], name), ref_rename(t[4], name))
    [] t[1] = "let" -> Let(t[2], name[t[3]], name[t[4]], ref_rename(t[5], name), ref_rename(t[6], name))
    [] OTHER -> Var(IF t[2] \in DOMAIN name THEN name[t[2]] ELSE t[2])

ref_copy(term, env) ==
  CHOOSE r \in {[t |-> ref_rename(term, s.name), env |-> s.env] :
                  s \in {ref_build_name(term, [env |-> env, name |-> << >>])}} : TRUE

(* value = env[name](): the value as bound, or a copy of it when the name  *)
(* has been used before                                                    *)
ref_thunk(env, name) ==
  IF name \in env.cp
  THEN ref_copy(env.vals[name], [env EXCEPT !.cpys = @ + 1])
  ELSE [t |-> env.vals[name], env |-> env]

(* env[name] = () => { env._cpys++; return copy(value, env) } *)
ref_used(env, name, value) ==
  [env EXCEPT !.vals = (name :> value) @@ @, !.cp = @ \cup {name}]

RECURSIVE ref_reduce(_, _, _)

ref_weak_reduce(term, env, weak) ==
  IF weak THEN [t |-> term, env |-> env] ELSE ref_reduce(term, env, weak)

(* the two calls of weak_reduce of a node no rule applies to, in order *)
ref_second(x, b, weak) ==
  CHOOSE r \in {[a |-> x.t, b |-> y.t, env |-> y.env] : y \in {ref_weak_reduce(b, x.env, weak)}} : TRUE

ref_both(a, b, env, weak) ==
  CHOOSE r \in {ref_second(x, b, weak) : x \in {ref_weak_reduce(a, env, weak)}} : TRUE

(* case Lam *)
ref_lam(term, env, weak) ==
  CHOOSE r \in {[t |-> Lam(term[2], b.t), env |-> b.env] :
                  b \in {ref_weak_reduce(term[3], env, weak)}} : TRUE

(* case App, func being the function reduced to weak head normal form *)
ref_app_par(term, func, f, weak) ==
  ref_reduce(Let(func[2], f.names[1], f.names[2], term[3],
                 Par(func[2], App(func[3], Var(f.names[1])), App(func[4], Var(f.names[2])))),
             f.env, weak)

ref_app_stuck(b) == [t |-> App(b.a, b.b), env |-> b.env]

ref_app(term, func, env, weak) ==
  CASE func[1] = "lam" -> ref_reduce(func[3], ref_bind(ref_rewrite(env), func[2], term[3]), weak)
    [] func[1] = "par" -> ref_app_par(term, func, ref_fresh(ref_rewrite(env), 2, << >>), weak)
    [] OTHER -> ref_app_stuck(ref_both(term[2], term[3], env, weak))

(* case Par *)
ref_par_done(term, b) == [t |-> Par(term[2], b.a, b.b), env |-> b.env]

(* case Let, expr being the expression reduced to weak head normal form *)
ref_let_lam(term, expr, f, weak) ==
  ref_reduce(Let(term[2], f.names[1], f.names[2], expr[3], term[6]),
             ref_bind(ref_bind(ref_bind(f.env,
               term[3], Lam(f.names[3], Var(f.names[1]))),
               term[4], Lam(f.names[4], Var(f.names[2]))),
               expr[2], Par(term[2], Var(f.names[3]), Var(f.names[4]))),
             weak)

ref_let_stuck(term, b) == [t |-> Let(term[2], term[3], term[4], b.a, b.b), env |-> b.env]

ref_let(term, expr, env, weak) ==
  CASE expr[1] = "lam" -> ref_let_lam(term, expr, ref_fresh(ref_rewrite(env), 4, << >>), weak)
    [] expr[1] = "par" ->
         ref_reduce(term[6], ref_bind(ref_bind(ref_rewrite(env), term[3], expr[3]), term[4], expr[4]), weak)
    [] OTHER -> ref_let_stuck(term, ref_both(term[5], term[6], env, weak))

(* case Var *)
ref_var(term, env, weak) ==
  IF term[2] \in DOMAIN env.vals
  THEN CHOOSE r \in {ref_reduce(v.t, ref_used(v.env, term[2], v.t), weak) :
                       v \in {ref_thunk(env, term[2])}} : TRUE
  ELSE [t |-> term, env |-> env]

(* reduce(term, env, weak), part_000:14-106 *)
ref_reduce(term, env, weak) ==
  CASE term[1] = "lam" -> ref_lam(term, env, weak)
    [] term[1] = "app" ->
         CHOOSE r \in {ref_app(term, f.t, f.env, weak) : f \in {ref_reduce(term[2], env, TRUE)}} : TRUE
    [] term[1] = "par" ->
         CHOOSE r \in {ref_par_done(term, b) : b \in {ref_both(term[3], term[4], env, weak)}} : TRUE
    [] term[1] = "let" ->
         CHOOSE r \in {ref_let(term, e.t, e.env, weak) : e \in {ref_reduce(term[5], env, TRUE)}} : TRUE
    [] OTHER -> ref_var(term, env, weak)

(* The result of the reference read as the graph is read above: the paths  *)
(* from the root, a projection leading on to the expression of its Let     *)
(* (which is itself no node), a variable naming its binder by the paths    *)
(* that end at it.                                                         *)
RECURSIVE RefLets(_)
RefLets(t) ==
  CASE t[1] = "lam" -> RefLets(t[3])
    [] t[1] = "app" -> RefLets(t[2]) @@ RefLets(t[3])
    [] t[1] = "par" -> RefLets(t[3]) @@ RefLets(t[4])
    [] t[1] = "let" ->
         (t[3] :> [side |-> 0, col |-> t[2], expr |-> t[5], key |-> t[3]]) @@
         (t[4] :> [side |-> 1, col |-> t[2], expr |-> t[5], key |-> t[3]]) @@
         RefLets(t[5]) @@ RefLets(t[6])
    [] OTHER -> << >>

RefVisit(path, k, name, col) == [path |-> path, k |-> k, name |-> name, col |-> col]

RECURSIVE RefVisits(_, _, _)
RefVisits(t, path, lets) ==
  CASE t[1] = "lam" ->
         {RefVisit(path, "lam", t[2], 0)} \cup RefVisits(t[3], Append(path, 0), lets)
    [] t[1] = "app" ->
         {RefVisit(path, "app", "", 0)} \cup RefVisits(t[2], Append(path, 0), lets)
                                        \cup RefVisits(t[3], Append(path, 1), lets)
    [] t[1] = "par" ->
         {RefVisit(path, "par", "", t[2])} \cup RefVisits(t[3], Append(path, 0), lets)
                                           \cup RefVisits(t[4], Append(path, 1), lets)
    [] t[1] = "let" -> RefVisits(t[6], path, lets)
    [] t[2] \in DOMAIN lets ->
         {RefVisit(path, "dup", t[2], lets[t[2]].col)}
           \cup RefVisits(lets[t[2]].expr, Append(path, 0), lets)
    [] OTHER -> {RefVisit(path, "var", t[2], 0)}

RefNode(v, vs, lets) ==
  CASE v.k = "lam" -> [path |-> v.path, tag |-> LAM, ex0 |-> 0, ex1 |-> 0, binder |-> {}]
    [] v.k = "app" -> [path |-> v.path, tag |-> APP, ex0 |-> 0, ex1 |-> 0, binder |-> {}]
    [] v.k = "par" -> [path |-> v.path, tag |-> PAR, ex0 |-> v.col, ex1 |-> 0, binder |-> {}]
    [] v.k = "dup" ->
         [path |-> v.path, tag |-> IF lets[v.name].side = 0 THEN DP0 ELSE DP1,
          ex0 |-> v.col, ex1 |-> 0,
          binder |-> {w.path : w \in {x \in vs : x.k = "dup" /\ lets[x.name].key = lets[v.name].key}}]
    [] OTHER ->
         [path |-> v.path, tag |-> VAR, ex0 |-> 0, ex1 |-> 0,
          binder |-> {w.path : w \in {x \in vs : x.k = "lam" /\ x.name = v.name}}]

RefCanonOf(vs, lets) == {RefNode(v, vs, lets) : v \in vs}

RefCanon(t) ==
  CHOOSE r \in {RefCanonOf(RefVisits(t, << >>, lets), lets) : lets \in {RefLets(t)}} : TRUE

----------------------------------------------------------------------------
(* Specification: the program run to its fixpoint, and the reference       *)
(* called on the same term when the term is in its language: closed, of    *)
(* one color, built from abstraction, application, pair and projection     *)
(* (RefCodes).  ref keeps the rewrites the reference counted and the term  *)
(* it returned.  The program also runs on two terms outside that language  *)
(* and under the gas limits of Lims.                                       *)

RefCodes == {"S1", "S3", "S4", "Two", "SeenP"}

reference_call ==
  /\ ~ref.set
  /\ code \in RefCodes
  /\ \E r \in {ref_reduce(TermOf(code), EmptyEnv, FALSE)} :
       ref' = [set |-> TRUE, GAS |-> r.env.rwts, MEM |-> << >>, first |-> << >>,
               kind |-> "reference", nf |-> RefCanon(r.t)]
  /\ rule' = "none"
  /\ SameHeap
  /\ UNCHANGED <<GAS, LIM, code, stack, ret, seen, visited, drv, prim>>

InitRef == InitOn(RefCodes \cup {"Comm", "Ctr"}, Lims)

NextRef == Next \/ reference_call

SpecRef == InitRef /\ [][NextRef]_vars

(* C39: for a closed term of one color built from abstraction,            *)
(* application, pair and projection, on which both terminate, the graph    *)
(* under the root after normal(0) has been repeated to its fixpoint is,    *)
(* up to the names of the bound variables, the term the reference          *)
(* reduce(term, env) returns with weak = false.                            *)
C39_AgreesWithReference ==
  (ref.set /\ ref.kind = "reference" /\ RunOver /\ LIM = Infinity) => Canon(MEM) = ref.nf

====
